---- MODULE Spec2Model ----
(***************************************************************************)
(* Medicine reminder screen (src/unnamed/part_000, the same core as        *)
(* src/app/Reminder.tsx): the medicine list, the due-check run by the      *)
(* recheck effect and its 60 s interval, and the alarm handlers            *)
(* triggerAlarm / stopAlarm / snoozeAlarm / markAsTakenFromAlarm.          *)
(*                                                                         *)
(* React specifics that the model keeps:                                   *)
(*  - a callback reads the state captured by the render that created it    *)
(*    (useCallback / useEffect closures), not the state at call time;      *)
(*  - the recheck effect depends on [medicines, triggerAlarm], and         *)
(*    triggerAlarm on [activeAlarm]: after every commit that changes       *)
(*    medicines or activeAlarm the effect is torn down and run again       *)
(*    (effectPending), which evaluates the due-check at once and starts a  *)
(*    new interval;                                                        *)
(*  - several setActiveAlarm(value) calls in one callback: the last wins.  *)
(*                                                                         *)
(* Text is a sequence of one-character strings; an optional field is the   *)
(* empty set (undefined / null) or a singleton set.  Time is the local     *)
(* wall clock in milliseconds since Sunday 00:00.                          *)
(***************************************************************************)
EXTENDS Integers, Sequences, FiniteSets, TLC

VARIABLES
    medicines,      \* useState<Medicine[]>
    activeAlarm,    \* useState<ActiveAlarm | null>
    showAlarmModal, \* useState(false)
    alarmCheckRef,  \* the live recheck interval: next fire time and its closure
    snoozeTimers,   \* pending setTimeout callbacks armed by snoozeAlarm
    effectPending,  \* the recheck effect's dependencies changed in the last commit
    now,            \* wall clock, ms since Sunday 00:00
    created,        \* number of records created so far (orders Date.now() ids)
    userOps,        \* number of handler invocations by the user so far
    lastDue,        \* alarm payloads handed to triggerAlarm by the last step
    lastNotices,    \* ids for which the last step raised the low-stock Alert
    rungOnce,       \* <<medicineId, minute>> for which a fresh alarm started ringing
    rungTwice,      \* ... for which a fresh alarm started ringing more than once
    dropped,        \* ids whose due-event lost the alarm to another one of the same check
    lastOutcome,    \* what the last step reported: addMedicine's verdict or the
                    \* outcome of an audio start, else "none"
    saved,          \* the list handed to the latest saveMedicines call
    asyncStorage,   \* AsyncStorage: the items stored and the calls in flight
    mounted,        \* the component is mounted
    intervals,      \* the live setInterval(checkMedicineTimes) timers
    pendingPlay,    \* triggerAlarm calls suspended at await playAlarmSound()
    cues,           \* number of audio starts resolved so far (names the handles)
    soundRef,       \* useRef<Audio.Sound | null>
    sounds,         \* the loaded Audio.Sound objects: [id, playing, at (instant of loading)]
    soundStopTimers,\* deadlines of the pending 60 s auto-stop setTimeouts
    vibrationRef,   \* useRef<NodeJS.Timeout | null>
    vibrationIntervals, \* the live vibration setInterval timers
    vibrating,      \* the repeating Vibration pattern is on
    audio,          \* the audio module of this run: "prompt" loads and plays the
                    \* sound before the next event; the others answer when
                    \* they answer, with the outcome named
    notificationsEnabled,     \* useState(false), the notification screen
    isNotificationConfigured, \* useState(false)
    initializationRef,  \* useRef({isInitialized, isConfigured, initializationAttempted})
    pushAvailable,      \* the PushNotification module is there in this process
    registration,       \* how far the setup of PushNotification has come
    initTimers,         \* pending setTimeouts of the setup: 5 s fallback, 1 s retry
    scheduled,          \* the local notifications the system holds: [id, date, repeatType]
    pushCalls           \* the calls the last step made on PushNotification

vars == <<medicines, activeAlarm, showAlarmModal, alarmCheckRef, snoozeTimers,
          effectPending, now, created, userOps, lastDue, lastNotices, rungOnce, rungTwice,
          dropped, lastOutcome, saved, asyncStorage, mounted, intervals, pendingPlay,
          cues, soundRef,
          sounds, soundStopTimers, vibrationRef, vibrationIntervals, vibrating,
          audio, notificationsEnabled, isNotificationConfigured, initializationRef,
          pushAvailable, registration, initTimers, scheduled, pushCalls>>

notifVars == <<notificationsEnabled, isNotificationConfigured, initializationRef,
               pushAvailable, registration, initTimers, scheduled, pushCalls>>

cueVars == <<cues, soundRef, sounds, soundStopTimers, vibrationRef, vibrationIntervals,
             vibrating, audio>>

----------------------------------------------------------------------------
(* Bounds of the exploration *)

MaxMedicines == 2
MaxElapsed == 11
MaxUserOps == 3
MaxDays == 2
MaxNotifySteps == 2

----------------------------------------------------------------------------
(* Program constants *)

CheckPeriodMs == 60000
SnoozeDelayMs == 5 * 60 * 1000
SoundAutoStopMs == 60000
TakenGuardMinutes == 1
MsPerMinute == 1000 * 60

\* the clock is observed twice per recheck period
TimeStep == CheckPeriodMs \div 2

MsPerHour == 60 * MsPerMinute
MsPerDay == 24 * MsPerHour

----------------------------------------------------------------------------
(* Optional values *)

None == {}
Some(x) == {x}
The(o) == CHOOSE x \in o : TRUE

----------------------------------------------------------------------------
(* Date and text helpers *)

getHours(t) == (t \div MsPerHour) % 24
getMinutes(t) == (t \div MsPerMinute) % 60
getDay(t) == (t \div MsPerDay) % 7

Digits == <<"0", "1", "2", "3", "4", "5", "6", "7", "8", "9">>
IsDigit(c) == \E i \in 1..10 : Digits[i] = c
DigitValue(c) == (CHOOSE i \in 1..10 : Digits[i] = c) - 1

\* Number.prototype.toString for 0..99
NumToString(n) ==
    IF n < 10 THEN <<Digits[n + 1]>>
    ELSE <<Digits[(n \div 10) + 1], Digits[(n % 10) + 1]>>

\* String.prototype.padStart(2, '0')
PadStart2(s) == IF Len(s) < 2 THEN <<"0">> \o s ELSE s

\* `${hours padStart 2}:${minutes padStart 2}`
FormatHHMM(h, m) == PadStart2(NumToString(h)) \o <<":">> \o PadStart2(NumToString(m))

currentTime(t) == FormatHHMM(getHours(t), getMinutes(t))

Includes(seq, x) == \E i \in 1..Len(seq) : seq[i] = x

RECURSIVE TrimStart(_)
TrimStart(s) == IF s # <<>> /\ Head(s) = " " THEN TrimStart(Tail(s)) ELSE s

RECURSIVE TrimEnd(_)
TrimEnd(s) ==
    IF s # <<>> /\ s[Len(s)] = " " THEN TrimEnd(SubSeq(s, 1, Len(s) - 1)) ELSE s

Trim(s) == TrimEnd(TrimStart(s))

LowerChar(c) == CASE c = "A" -> "a" [] c = "B" -> "b" [] OTHER -> c
ToLowerCase(s) == [i \in 1..Len(s) |-> LowerChar(s[i])]

\* Number(text) for the texts a numeric keyboard yields: digits with an
\* optional leading minus; None stands for NaN.
RECURSIVE DigitsValue(_)
DigitsValue(s) ==
    IF s = <<>> THEN 0 ELSE 10 * DigitsValue(SubSeq(s, 1, Len(s) - 1)) + DigitValue(s[Len(s)])

AllDigits(s) == s # <<>> /\ \A i \in 1..Len(s) : IsDigit(s[i])

Number(s) ==
    IF s = <<>> THEN Some(0)
    ELSE IF AllDigits(s) THEN Some(DigitsValue(s))
    ELSE IF Head(s) = "-" /\ AllDigits(Tail(s)) THEN Some(0 - DigitsValue(Tail(s)))
    ELSE None

----------------------------------------------------------------------------
(* Form validation and record creation *)

validateMedicineName(name) == Len(Trim(name)) >= 2
validateDosage(dosage) == Len(Trim(dosage)) >= 2

\* /^([01]?[0-9]|2[0-3]):[0-5][0-9]$/
validateTime(time) ==
    \/ /\ Len(time) = 5
       /\ \/ time[1] \in {"0", "1"} /\ IsDigit(time[2])
          \/ time[1] = "2" /\ time[2] \in {"0", "1", "2", "3"}
       /\ time[3] = ":"
       /\ time[4] \in {"0", "1", "2", "3", "4", "5"}
       /\ IsDigit(time[5])
    \/ /\ Len(time) = 4
       /\ IsDigit(time[1])
       /\ time[2] = ":"
       /\ time[3] \in {"0", "1", "2", "3", "4", "5"}
       /\ IsDigit(time[4])

validateStock(stock) ==
    stock = <<>> \/ (Number(stock) # None /\ The(Number(stock)) >= 0)

\* variant: the times are not validated
validateForm_SkipsTimes(f) ==
    /\ validateMedicineName(f.name)
    /\ validateDosage(f.dosage)
    /\ validateStock(f.stock)

validateForm(f) ==
    /\ validateMedicineName(f.name)
    /\ validateDosage(f.dosage)
    /\ \A i \in 1..Len(f.times) : validateTime(f.times[i])
    /\ validateStock(f.stock)

\* variant: the names are compared without toLowerCase
NameTaken_CaseSensitive(meds, f) ==
    \E i \in 1..Len(meds) : meds[i].name = f.name

NameTaken(meds, f) ==
    \E i \in 1..Len(meds) : ToLowerCase(meds[i].name) = ToLowerCase(f.name)

NonBlank(time) == Trim(time) # <<>>

\* The record addMedicine builds.  color, category, icon, priority, notes and
\* startDate carry no scheduling meaning and are left out.  A stockAlert text
\* that is not a number (NaN) never satisfies stock <= stockAlert and is
\* represented like an absent one.
NewMedicine(f, id) ==
    [ id          |-> id,
      name        |-> Trim(f.name),
      dosage      |-> Trim(f.dosage),
      times       |-> SelectSeq(f.times, NonBlank),
      frequency   |-> f.frequency,
      weeklyDays  |-> IF f.frequency = "weekly" THEN Some(f.weeklyDays) ELSE None,
      isActive    |-> TRUE,
      lastTaken   |-> None,
      stock       |-> IF f.stock # <<>> THEN Number(f.stock) ELSE None,
      stockAlert  |-> IF f.stockAlert # <<>> THEN Number(f.stockAlert) ELSE None ]

----------------------------------------------------------------------------
(* Persistence: AsyncStorage holds the list as JSON text under one key *)

StorageKey == "medicine_reminders"

\* the fields of a record that may be undefined
OptionalFields == {"weeklyDays", "lastTaken", "stock", "stockAlert"}

\* JSON.stringify of the list: an array of objects in which a field whose
\* value is undefined is left out
JSONStringify(medicineList) ==
    [i \in 1..Len(medicineList) |->
        LET m == medicineList[i]
        IN  [k \in {f \in DOMAIN m : f \notin OptionalFields \/ m[f] # None} |->
                IF k \in OptionalFields THEN The(m[k]) ELSE m[k]]]

\* JSON.parse of that text: a field the object does not have reads undefined
JSONParse(text) ==
    [i \in 1..Len(text) |->
        LET d == text[i]
            Opt(k) == IF k \in DOMAIN d THEN Some(d[k]) ELSE None
        IN  [ id          |-> d["id"],
              name        |-> d["name"],
              dosage      |-> d["dosage"],
              times       |-> d["times"],
              frequency   |-> d["frequency"],
              weeklyDays  |-> Opt("weeklyDays"),
              isActive    |-> d["isActive"],
              lastTaken   |-> Opt("lastTaken"),
              stock       |-> Opt("stock"),
              stockAlert  |-> Opt("stockAlert") ]]

\* variant: the list is written under another key than the one loaded
saveMedicines_OtherKey(medicineList) ==
    [op |-> "set", key |-> "medicines", value |-> JSONStringify(medicineList)]

\* the AsyncStorage.setItem call saveMedicines makes
saveMedicines(medicineList) ==
    [op |-> "set", key |-> StorageKey, value |-> JSONStringify(medicineList)]

\* the AsyncStorage.getItem call loadMedicines makes
loadMedicines == [op |-> "get", key |-> StorageKey]

\* a call handed to AsyncStorage: a prompt storage has completed a setItem
\* before the next event, a queued one completes its calls later, in order
setItem(storage, call) ==
    IF storage.mode = "prompt"
    THEN [storage EXCEPT !.items = (call.key :> call.value) @@ @]
    ELSE [storage EXCEPT !.pending = Append(@, call)]

----------------------------------------------------------------------------
(* Medicine list updates *)

Max(a, b) == IF a >= b THEN a ELSE b

\* variant: med.stock !== undefined ? med.stock - 1 : undefined
NewStock_NoFloor(stock) ==
    IF stock # None THEN Some(The(stock) - 1) ELSE None

\* med.stock ? Math.max(0, med.stock - 1) : undefined
NewStock(stock) ==
    IF stock # None /\ The(stock) # 0 THEN Some(Max(0, The(stock) - 1)) ELSE None

\* variant: the id test is lost and every record is marked
markAsTaken_Every(meds, id, t) ==
    [i \in 1..Len(meds) |->
        [meds[i] EXCEPT !.lastTaken = Some(t), !.stock = NewStock(meds[i].stock)]]

markAsTaken(meds, id, t) ==
    [i \in 1..Len(meds) |->
        IF meds[i].id = id
        THEN [meds[i] EXCEPT !.lastTaken = Some(t), !.stock = NewStock(meds[i].stock)]
        ELSE meds[i]]

ToggleActive(meds, id) ==
    [i \in 1..Len(meds) |->
        IF meds[i].id = id THEN [meds[i] EXCEPT !.isActive = ~@] ELSE meds[i]]

RemoveById(meds, id) ==
    LET Keep(m) == m.id # id IN SelectSeq(meds, Keep)

----------------------------------------------------------------------------
(* Schedule evaluation *)

\* variant: weekday indices taken as 1 = Sunday .. 7 = Saturday
isWeeklyDayActive_OneBased(med, t) ==
    IF med.frequency # "weekly" \/ med.weeklyDays = None THEN TRUE
    ELSE (getDay(t) + 1) \in The(med.weeklyDays)

isWeeklyDayActive(med, t) ==
    IF med.frequency # "weekly" \/ med.weeklyDays = None THEN TRUE
    ELSE getDay(t) \in The(med.weeklyDays)

\* variant: the guard written as >= 1
SinceLastTakenOk_AtLeast(med, t) ==
    \/ med.lastTaken = None
    \/ (t - The(med.lastTaken)) >= TakenGuardMinutes * MsPerMinute

\* variant: the time since the last dose is not looked at
SinceLastTakenOk_NoGuard(med, t) == TRUE

\* timeSinceLastTaken > 1, in minutes; Infinity when never taken
SinceLastTakenOk(med, t) ==
    \/ med.lastTaken = None
    \/ (t - The(med.lastTaken)) > TakenGuardMinutes * MsPerMinute

\* variant: the isActive test is missing
IsDue_IgnoresActive(med, t) ==
    /\ Includes(med.times, currentTime(t))
    /\ ~(med.frequency = "weekly" /\ ~isWeeklyDayActive(med, t))
    /\ SinceLastTakenOk(med, t)

IsDue(med, t) ==
    /\ med.isActive
    /\ Includes(med.times, currentTime(t))
    /\ ~(med.frequency = "weekly" /\ ~isWeeklyDayActive(med, t))
    /\ SinceLastTakenOk(med, t)

LowStock(med) ==
    /\ med.stock # None
    /\ med.stockAlert # None
    /\ The(med.stock) <= The(med.stockAlert)

AlarmData(med, t) ==
    [ medicineId   |-> med.id,
      medicineName |-> med.name,
      dosage       |-> med.dosage,
      time         |-> currentTime(t),
      snoozeCount  |-> 0 ]

\* the payloads checkMedicineTimes hands to triggerAlarm, in list order
DueEvents(meds, t) ==
    LET Due(m) == IsDue(m, t)
        due == SelectSeq(meds, Due)
    IN  [i \in 1..Len(due) |-> AlarmData(due[i], t)]

\* variant: the stock alert is raised only while no alarm is active
DueNotices_WhenIdle(meds, t) ==
    IF activeAlarm # None THEN {}
    ELSE {meds[i].id : i \in {j \in 1..Len(meds) : IsDue(meds[j], t) /\ LowStock(meds[j])}}

DueNotices(meds, t) ==
    {meds[i].id : i \in {j \in 1..Len(meds) : IsDue(meds[j], t) /\ LowStock(meds[j])}}

----------------------------------------------------------------------------
(* Alarm state machine *)

\* variant: the early return is missing
triggerAlarm_NoGuard(seen, alarmData, pending) == Some(alarmData)

\* variant: a pending snooze also blocks the trigger
triggerAlarm_SnoozeBlocks(seen, alarmData, pending) ==
    IF seen # None \/ snoozeTimers # <<>> THEN pending ELSE Some(alarmData)

\* The activeAlarm state after one triggerAlarm call.  seen is the
\* activeAlarm captured by the render that created this triggerAlarm,
\* pending the value the state is about to take.
triggerAlarm(seen, alarmData, pending) ==
    IF seen # None THEN pending ELSE Some(alarmData)

RECURSIVE TriggerEach(_, _, _)
TriggerEach(seen, events, pending) ==
    IF events = <<>> THEN pending
    ELSE TriggerEach(seen, Tail(events), triggerAlarm(seen, Head(events), pending))

RingKey(alarm, t) == <<alarm.medicineId, t \div MsPerMinute>>

\* variant: clearing leaves the timer live
clearInterval_Noop(handle, live) == live

\* clearInterval(handle) on the set of live interval timers
clearInterval(handle, live) == live \ {handle}

\* variant: a failing playAsync is not caught
playAlarmSound_NoCatch(outcome) ==
    [loaded |-> outcome # "createFails",
     playing |-> outcome = "ok",
     armed |-> outcome = "ok",
     throws |-> outcome = "playFails"]

\* playAlarmSound for each outcome of the audio module: createAlarmSound
\* returns null when createAsync fails; a sound that loaded is stored in
\* soundRef before playAsync; the auto-stop timer is armed after playAsync
\* succeeded; both try/catch blocks swallow the error.
playAlarmSound(outcome) ==
    [loaded |-> outcome # "createFails",
     playing |-> outcome = "ok",
     armed |-> outcome = "ok",
     throws |-> FALSE]

AudioOutcomes == {"ok", "createFails", "playFails"}

\* bookkeeping of the alarms that start ringing with snoozeCount 0
NoteRing(before, after) ==
    IF after # None /\ after # before /\ The(after).snoozeCount = 0
    THEN /\ rungOnce' = rungOnce \cup {RingKey(The(after), now)}
         /\ rungTwice' = rungTwice \cup ({RingKey(The(after), now)} \cap rungOnce)
    ELSE UNCHANGED <<rungOnce, rungTwice>>

\* What delivering the due-events does to the alarm state: each event goes
\* through triggerAlarm of the closure that saw activeAlarm = seen.
Deliver(seen, events) ==
    LET rang == seen = None /\ events # <<>>
    IN  /\ activeAlarm' = TriggerEach(seen, events, activeAlarm)
        /\ showAlarmModal' = (rang \/ showAlarmModal)
        /\ effectPending' = rang
        /\ lastDue' = events
        /\ lastOutcome' = "none"
        /\ pendingPlay' = pendingPlay + (IF seen = None THEN Len(events) ELSE 0)
        /\ IF rang THEN NoteRing(None, activeAlarm') ELSE UNCHANGED <<rungOnce, rungTwice>>
        /\ dropped' = IF rang /\ activeAlarm' # None
                      THEN (dropped \cup {events[i].medicineId : i \in 1..Len(events)})
                              \ {The(activeAlarm').medicineId}
                      ELSE dropped

----------------------------------------------------------------------------
(* The "time until next dose" text of a medicine card *)

\* time.split(':').map(Number)
RECURSIVE SplitColon(_)
SplitColon(time) ==
    IF time = <<>> THEN << <<>> >>
    ELSE IF Head(time) = ":" THEN << <<>> >> \o SplitColon(Tail(time))
    ELSE LET rest == SplitColon(Tail(time))
         IN  << <<Head(time)>> \o rest[1] >> \o Tail(rest)

\* Math.min(...values)
MathMin(values) ==
    CHOOSE v \in {values[i] : i \in 1..Len(values)} :
        \A i \in 1..Len(values) : v <= values[i]

\* variant: a time equal to the current minute counts as today
getTimeUntilNext_NonStrict(medicine, t) ==
    LET currentMinutes == getHours(t) * 60 + getMinutes(t)
        InMinutes(time) == LET hm == SplitColon(time)
                           IN  The(Number(hm[1])) * 60 + The(Number(hm[2]))
        nextTimes == [i \in 1..Len(medicine.times) |->
                        IF InMinutes(medicine.times[i]) >= currentMinutes
                        THEN InMinutes(medicine.times[i])
                        ELSE InMinutes(medicine.times[i]) + 24 * 60]
        timeDiff == MathMin(nextTimes) - currentMinutes
    IN  IF medicine.frequency = "weekly" /\ ~isWeeklyDayActive(medicine, t)
        THEN [kind |-> "notToday"]
        ELSE IF timeDiff \div 60 <= 0
        THEN [kind |-> "minutes", minutesLeft |-> timeDiff % 60]
        ELSE [kind |-> "hoursAndMinutes", hoursLeft |-> timeDiff \div 60,
              minutesLeft |-> timeDiff % 60]

\* getTimeUntilNext: the sentinel text, "within m minutes" or "within h hours
\* and m minutes"
getTimeUntilNext(medicine, t) ==
    LET currentMinutes == getHours(t) * 60 + getMinutes(t)
        InMinutes(time) == LET hm == SplitColon(time)
                           IN  The(Number(hm[1])) * 60 + The(Number(hm[2]))
        nextTimes == [i \in 1..Len(medicine.times) |->
                        IF InMinutes(medicine.times[i]) > currentMinutes
                        THEN InMinutes(medicine.times[i])
                        ELSE InMinutes(medicine.times[i]) + 24 * 60]
        timeDiff == MathMin(nextTimes) - currentMinutes
    IN  IF medicine.frequency = "weekly" /\ ~isWeeklyDayActive(medicine, t)
        THEN [kind |-> "notToday"]
        ELSE IF timeDiff \div 60 <= 0
        THEN [kind |-> "minutes", minutesLeft |-> timeDiff % 60]
        ELSE [kind |-> "hoursAndMinutes", hoursLeft |-> timeDiff \div 60,
              minutesLeft |-> timeDiff % 60]

----------------------------------------------------------------------------
(* Start instant and the form inputs explored *)

\* Tuesday 07:59:30
StartInstant == 2 * MsPerDay + 7 * MsPerHour + 59 * MsPerMinute + TimeStep
Horizon == StartInstant + MaxElapsed * TimeStep

T0800 == FormatHHMM(8, 0)
T0801 == FormatHHMM(8, 1)

Forms ==
    { [name |-> <<"a", "b">>, dosage |-> <<"1", "g">>, times |-> <<T0800>>,
       frequency |-> "daily", weeklyDays |-> {}, stock |-> <<"2">>, stockAlert |-> <<"1">>],
      [name |-> <<"A", "b">>, dosage |-> <<"1", "g">>, times |-> <<T0801>>,
       frequency |-> "daily", weeklyDays |-> {}, stock |-> <<"0">>, stockAlert |-> <<>>],
      [name |-> <<"c", "d">>, dosage |-> <<"2", "g">>, times |-> <<T0800>>,
       frequency |-> "weekly", weeklyDays |-> {1, 3, 5}, stock |-> <<>>, stockAlert |-> <<>>],
      [name |-> <<"c", "d", " ">>, dosage |-> <<"2", "g">>, times |-> <<T0800, T0801>>,
       frequency |-> "weekly", weeklyDays |-> {2}, stock |-> <<"1">>, stockAlert |-> <<"1">>],
      [name |-> <<"e", "f">>, dosage |-> <<"2", "g">>, times |-> <<T0800>>,
       frequency |-> "weekly", weeklyDays |-> {}, stock |-> <<>>, stockAlert |-> <<>>],
      [name |-> <<"a", " ">>, dosage |-> <<"1", "g">>, times |-> <<T0800>>,
       frequency |-> "daily", weeklyDays |-> {}, stock |-> <<>>, stockAlert |-> <<>>],
      [name |-> <<"g", "h">>, dosage |-> <<"1", "g">>, times |-> <<T0800>>,
       frequency |-> "daily", weeklyDays |-> {}, stock |-> <<"-", "1">>, stockAlert |-> <<>>],
      [name |-> <<"g", "h">>, dosage |-> <<"1", "g">>, times |-> <<T0800, <<>>>>,
       frequency |-> "daily", weeklyDays |-> {}, stock |-> <<>>, stockAlert |-> <<>>],
      [name |-> <<"g", "h">>, dosage |-> <<"1", "g">>, times |-> << <<>> >>,
       frequency |-> "daily", weeklyDays |-> {}, stock |-> <<>>, stockAlert |-> <<>>],
      [name |-> <<"g", "h">>, dosage |-> <<" ", "g", " ">>, times |-> <<T0800>>,
       frequency |-> "daily", weeklyDays |-> {}, stock |-> <<>>, stockAlert |-> <<>>] }

\* the forms entered in the runs of the alarm machine: the valid ones whose
\* schedule names a day
MachineForms ==
    {f \in Forms : validateForm(f) /\ (f.frequency = "daily" \/ f.weeklyDays # {})}

\* the forms entered when the audio module is left free to fail and to
\* answer late
AudioForms == {f \in Forms : f.stock = <<"1">> \/ f.stock = <<"2">>}

FormsOf(module) == IF module = "prompt" THEN MachineForms ELSE AudioForms

----------------------------------------------------------------------------
(* Initial state: the component has mounted with an empty list, the recheck
   effect has run once and started its interval. *)

\* the notification screen is not part of the run
NotifyAtRest ==
    /\ notificationsEnabled = FALSE
    /\ isNotificationConfigured = FALSE
    /\ initializationRef = [isInitialized |-> FALSE, isConfigured |-> FALSE,
                            initializationAttempted |-> FALSE]
    /\ pushAvailable = FALSE
    /\ registration = "mounting"
    /\ initTimers = [fallback |-> 0, retry |-> 0]
    /\ scheduled = {}
    /\ pushCalls = <<>>

Init ==
    /\ NotifyAtRest
    /\ medicines = <<>>
    /\ activeAlarm = None
    /\ showAlarmModal = FALSE
    /\ now = StartInstant
    /\ alarmCheckRef = [at |-> StartInstant + CheckPeriodMs,
                        medicines |-> <<>>, activeAlarm |-> None]
    /\ snoozeTimers = <<>>
    /\ effectPending = FALSE
    /\ created = 0
    /\ userOps = 0
    /\ lastDue = <<>>
    /\ lastNotices = {}
    /\ rungOnce = {}
    /\ rungTwice = {}
    /\ dropped = {}
    /\ lastOutcome = "none"
    /\ saved = <<>>
    /\ asyncStorage = [mode |-> "prompt", pending |-> <<>>,
                       items |-> StorageKey :> JSONStringify(<<>>)]
    /\ mounted = TRUE
    /\ intervals = {alarmCheckRef}
    /\ pendingPlay = 0
    /\ cues = 0
    /\ soundRef = None
    /\ sounds = {}
    /\ soundStopTimers = {}
    /\ vibrationRef = None
    /\ vibrationIntervals = {}
    /\ vibrating = FALSE
    /\ audio = "prompt"

----------------------------------------------------------------------------
(* The recheck effect and its interval *)

\* variant: the effect only starts the interval, without the check at start
RecheckEffect_NoCheckAtStart ==
    /\ effectPending
    /\ effectPending' = FALSE
    /\ lastDue' = <<>>
    /\ lastNotices' = {}
    /\ lastOutcome' = "none"
    /\ alarmCheckRef' = [at |-> now + CheckPeriodMs,
                         medicines |-> medicines, activeAlarm |-> activeAlarm]
    /\ intervals' = clearInterval(alarmCheckRef, intervals) \cup {alarmCheckRef'}
    /\ saved' = medicines
    /\ asyncStorage' = setItem(asyncStorage, saveMedicines(medicines))
    /\ UNCHANGED notifVars
    /\ UNCHANGED <<medicines, activeAlarm, showAlarmModal, snoozeTimers, now, created,
                   userOps, rungOnce, rungTwice, dropped, mounted, pendingPlay>>
    /\ UNCHANGED cueVars

\* useEffect(..., [medicines, triggerAlarm, isWeeklyDayActive]): clear the old
\* interval, run checkMedicineTimes now, start a new interval.
RecheckEffect ==
    /\ effectPending
    /\ Deliver(activeAlarm, DueEvents(medicines, now))
    /\ lastNotices' = DueNotices(medicines, now)
    /\ alarmCheckRef' = [at |-> now + CheckPeriodMs,
                         medicines |-> medicines, activeAlarm |-> activeAlarm]
    /\ intervals' = clearInterval(alarmCheckRef, intervals) \cup {alarmCheckRef'}
    /\ saved' = medicines
    /\ asyncStorage' = setItem(asyncStorage, saveMedicines(medicines))
    /\ UNCHANGED notifVars
    /\ UNCHANGED <<medicines, snoozeTimers, now, created, userOps, mounted>>
    /\ UNCHANGED cueVars

\* setInterval(checkMedicineTimes, 60000): the callback of the render that
\* started the interval.
RecheckTick ==
    /\ ~effectPending
    /\ \E iv \in intervals :
          /\ iv.at = now
          /\ Deliver(iv.activeAlarm, DueEvents(iv.medicines, now))
          /\ lastNotices' = DueNotices(iv.medicines, now)
          /\ LET next == [iv EXCEPT !.at = now + CheckPeriodMs]
             IN  /\ intervals' = (intervals \ {iv}) \cup {next}
                 /\ alarmCheckRef' = IF alarmCheckRef = iv THEN next ELSE alarmCheckRef
    /\ UNCHANGED <<medicines, snoozeTimers, now, created, userOps, saved, asyncStorage, notifVars, mounted>>
    /\ UNCHANGED cueVars

----------------------------------------------------------------------------
(* Alarm handlers (buttons of the full-screen alarm Modal) *)

\* stopAlarm's release of the cues: stopAlarmSound, clearInterval of the
\* vibration timer, Vibration.cancel()
StopCues ==
    /\ sounds' = IF soundRef = None THEN sounds
                 ELSE {s \in sounds : s.id # The(soundRef)}
    /\ soundRef' = None
    /\ vibrationIntervals' = IF vibrationRef = None THEN vibrationIntervals
                             ELSE clearInterval(The(vibrationRef), vibrationIntervals)
    /\ vibrationRef' = None
    /\ vibrating' = FALSE
    /\ UNCHANGED <<cues, soundStopTimers, pendingPlay, mounted, intervals, audio>>

UserOp ==
    /\ mounted
    /\ audio = "prompt" => pendingPlay = 0
    /\ ~effectPending
    /\ userOps < MaxUserOps
    /\ userOps' = userOps + 1

\* variant: dismissing also records the dose
stopAlarm_RecordsDose ==
    /\ UserOp
    /\ showAlarmModal
    /\ medicines' = IF activeAlarm = None THEN medicines
                    ELSE markAsTaken(medicines, The(activeAlarm).medicineId, now)
    /\ activeAlarm' = None
    /\ showAlarmModal' = FALSE
    /\ effectPending' = (activeAlarm # None)
    /\ lastDue' = <<>>
    /\ lastNotices' = {}
    /\ UNCHANGED <<alarmCheckRef, snoozeTimers, now, created, rungOnce, rungTwice, dropped, saved, asyncStorage, notifVars>>
    /\ lastOutcome' = "none"
    /\ StopCues

stopAlarm ==
    /\ UserOp
    /\ showAlarmModal
    /\ activeAlarm' = None
    /\ showAlarmModal' = FALSE
    /\ effectPending' = (activeAlarm # None)
    /\ lastDue' = <<>>
    /\ lastNotices' = {}
    /\ UNCHANGED <<medicines, alarmCheckRef, snoozeTimers, now, created, rungOnce, rungTwice, dropped, saved, asyncStorage, notifVars>>
    /\ lastOutcome' = "none"
    /\ StopCues

snoozeAlarm ==
    /\ UserOp
    /\ showAlarmModal
    /\ activeAlarm # None
    /\ activeAlarm' = None
    /\ showAlarmModal' = FALSE
    /\ effectPending' = TRUE
    /\ snoozeTimers' = Append(snoozeTimers,
                              [at |-> now + SnoozeDelayMs,
                               alarm |-> The(activeAlarm),
                               seen |-> activeAlarm])
    /\ lastDue' = <<>>
    /\ lastNotices' = {}
    /\ UNCHANGED <<medicines, alarmCheckRef, now, created, rungOnce, rungTwice, dropped, saved, asyncStorage, notifVars>>
    /\ lastOutcome' = "none"
    /\ StopCues

RemoveAt(seq, i) == SubSeq(seq, 1, i - 1) \o SubSeq(seq, i + 1, Len(seq))

\* the setTimeout callback of snoozeAlarm
SnoozeFire(i) ==
    /\ ~effectPending
    /\ snoozeTimers[i].at = now
    /\ LET snoozedAlarm == [snoozeTimers[i].alarm EXCEPT !.snoozeCount = @ + 1]
       IN  Deliver(snoozeTimers[i].seen, <<snoozedAlarm>>)
    /\ snoozeTimers' = RemoveAt(snoozeTimers, i)
    /\ lastNotices' = {}
    /\ UNCHANGED <<medicines, alarmCheckRef, now, created, userOps, saved, asyncStorage, notifVars, mounted, intervals>>
    /\ UNCHANGED cueVars

markAsTakenFromAlarm ==
    /\ UserOp
    /\ showAlarmModal
    /\ activeAlarm # None
    /\ medicines' = markAsTaken(medicines, The(activeAlarm).medicineId, now)
    /\ activeAlarm' = None
    /\ showAlarmModal' = FALSE
    /\ effectPending' = TRUE
    /\ lastDue' = <<>>
    /\ lastNotices' = {}
    /\ UNCHANGED <<alarmCheckRef, snoozeTimers, now, created, rungOnce, rungTwice, saved, asyncStorage, notifVars>>
    /\ dropped' = dropped \ {The(activeAlarm).medicineId}
    /\ lastOutcome' = "none"
    /\ StopCues

----------------------------------------------------------------------------
(* List handlers (the list is covered while the alarm Modal is visible) *)

ListChange(meds) ==
    /\ medicines' = meds
    /\ effectPending' = TRUE
    /\ lastDue' = <<>>
    /\ lastNotices' = {}
    /\ UNCHANGED <<activeAlarm, showAlarmModal, alarmCheckRef, snoozeTimers, now,
                   rungOnce, rungTwice, saved, asyncStorage, notifVars, mounted, intervals, pendingPlay>>
    /\ UNCHANGED cueVars

\* variant: the id is the day of the clock reading
DateNowId_PerDay == getDay(now)

\* id: Date.now().toString().  Two creations are separate submissions of the
\* form, which is reset in between, so their clock readings differ and grow;
\* a reading is named by its rank among the creations.
DateNowId == created + 1

addMedicine(f) ==
    /\ mounted
    /\ audio = "prompt" => pendingPlay = 0
    /\ ~effectPending
    /\ userOps < MaxUserOps
    /\ ~showAlarmModal
    /\ Len(medicines) < MaxMedicines
    /\ IF validateForm(f) /\ ~NameTaken(medicines, f)
       THEN /\ ListChange(Append(medicines, NewMedicine(f, DateNowId)))
            /\ created' = created + 1
            /\ userOps' = userOps + 1
            /\ lastOutcome' = "added"
            /\ UNCHANGED dropped
       ELSE /\ lastOutcome' = IF validateForm(f) THEN "duplicate" ELSE "invalid"
            /\ lastDue' = <<>>
            /\ lastNotices' = {}
            /\ UNCHANGED <<medicines, activeAlarm, showAlarmModal, alarmCheckRef,
                           snoozeTimers, effectPending, now, created, userOps,
                           rungOnce, rungTwice, dropped, saved, asyncStorage, notifVars, mounted, intervals,
                           pendingPlay>>
            /\ UNCHANGED cueVars

markAsTakenCard(i) ==
    /\ UserOp
    /\ ~showAlarmModal
    /\ medicines[i].isActive
    /\ ListChange(markAsTaken(medicines, medicines[i].id, now))
    /\ dropped' = dropped \ {medicines[i].id}
    /\ lastOutcome' = "none"
    /\ UNCHANGED created

toggleMedicine(i) ==
    /\ UserOp
    /\ ~showAlarmModal
    /\ ListChange(ToggleActive(medicines, medicines[i].id))
    /\ dropped' = dropped \ {medicines[i].id}
    /\ lastOutcome' = "none"
    /\ UNCHANGED created

\* variant: the confirmation of a delete is accepted while the alarm screen
\* is up
deleteMedicine_DuringAlarm(i) ==
    /\ UserOp
    /\ ListChange(RemoveById(medicines, medicines[i].id))
    /\ dropped' = dropped \ {medicines[i].id}
    /\ lastOutcome' = "none"
    /\ UNCHANGED created

deleteMedicine(i) ==
    /\ UserOp
    /\ ~showAlarmModal
    /\ ListChange(RemoveById(medicines, medicines[i].id))
    /\ dropped' = dropped \ {medicines[i].id}
    /\ lastOutcome' = "none"
    /\ UNCHANGED created

----------------------------------------------------------------------------
(* The audio start inside triggerAlarm, the auto-stop timer, unmount *)

\* The awaited playAlarmSound() of one triggerAlarm call settles with the
\* given outcome of the audio module, and triggerAlarm goes on to start the
\* vibration pattern and its interval.
PlayResolve(outcome) ==
    /\ ~effectPending
    /\ pendingPlay > 0
    /\ outcome = (IF audio = "prompt" THEN "ok" ELSE audio)
    /\ pendingPlay' = pendingPlay - 1
    /\ cues' = cues + 1
    /\ LET r == playAlarmSound(outcome)
       IN  /\ soundRef' = IF r.loaded THEN Some(cues') ELSE soundRef
           /\ sounds' = IF r.loaded
                        THEN sounds \cup {[id |-> cues', playing |-> r.playing, at |-> now]}
                        ELSE sounds
           /\ soundStopTimers' = IF r.armed
                                 THEN soundStopTimers \cup {now + SoundAutoStopMs}
                                 ELSE soundStopTimers
           /\ IF r.throws
              THEN /\ lastOutcome' = "escaped"
                   /\ UNCHANGED <<vibrating, vibrationRef, vibrationIntervals>>
              ELSE /\ lastOutcome' = outcome
                   /\ vibrating' = TRUE
                   /\ vibrationRef' = Some(cues')
                   /\ vibrationIntervals' = vibrationIntervals \cup {cues'}
    /\ lastDue' = <<>>
    /\ lastNotices' = {}
    /\ UNCHANGED <<medicines, activeAlarm, showAlarmModal, alarmCheckRef, snoozeTimers,
                   effectPending, now, created, userOps, rungOnce, rungTwice, dropped,
                   saved, asyncStorage, notifVars, mounted, intervals, audio>>

\* the setTimeout callback armed by playAlarmSound
SoundAutoStop ==
    /\ ~effectPending
    /\ now \in soundStopTimers
    /\ soundStopTimers' = soundStopTimers \ {now}
    /\ sounds' = IF soundRef = None THEN sounds
                 ELSE {s \in sounds : s.id # The(soundRef)}
    /\ soundRef' = None
    /\ lastDue' = <<>>
    /\ lastNotices' = {}
    /\ lastOutcome' = "none"
    /\ UNCHANGED <<medicines, activeAlarm, showAlarmModal, alarmCheckRef, snoozeTimers,
                   effectPending, now, created, userOps, rungOnce, rungTwice, dropped,
                   saved, asyncStorage, notifVars, mounted, intervals, pendingPlay, cues, vibrationRef,
                   vibrationIntervals, vibrating, audio>>

\* The component unmounts: the cleanup of the recheck effect and the cleanup
\* effect clear the recheck interval and the vibration interval and stop the
\* sound of soundRef.
Unmount ==
    /\ UserOp
    /\ mounted' = FALSE
    /\ intervals' = clearInterval(alarmCheckRef, intervals)
    /\ vibrationIntervals' = IF vibrationRef = None THEN vibrationIntervals
                             ELSE clearInterval(The(vibrationRef), vibrationIntervals)
    /\ sounds' = IF soundRef = None THEN sounds
                 ELSE {s \in sounds : s.id # The(soundRef)}
    /\ soundRef' = None
    /\ lastDue' = <<>>
    /\ lastNotices' = {}
    /\ lastOutcome' = "none"
    /\ UNCHANGED <<medicines, activeAlarm, showAlarmModal, alarmCheckRef, snoozeTimers,
                   effectPending, now, created, rungOnce, rungTwice, dropped, saved, asyncStorage, notifVars,
                   pendingPlay, cues, soundStopTimers, vibrationRef, vibrating,
                   audio>>

----------------------------------------------------------------------------
(* Passage of time: a timer fires at its deadline *)

TimerDue ==
    \/ \E iv \in intervals : iv.at <= now
    \/ \E i \in 1..Len(snoozeTimers) : snoozeTimers[i].at <= now
    \/ \E t \in soundStopTimers : t <= now

Advance ==
    /\ ~effectPending
    /\ pendingPlay = 0
    /\ ~TimerDue
    /\ now + TimeStep <= Horizon
    /\ now' = now + TimeStep
    /\ lastDue' = <<>>
    /\ lastNotices' = {}
    /\ UNCHANGED <<medicines, activeAlarm, showAlarmModal, alarmCheckRef, snoozeTimers,
                   effectPending, created, userOps, rungOnce, rungTwice, dropped, saved, asyncStorage, notifVars,
                   mounted, intervals, pendingPlay>>
    /\ UNCHANGED cueVars
    /\ lastOutcome' = "none"

Next ==
    \/ RecheckEffect
    \/ RecheckTick
    \/ stopAlarm
    \/ snoozeAlarm
    \/ \E i \in 1..Len(snoozeTimers) : SnoozeFire(i)
    \/ markAsTakenFromAlarm
    \/ \E f \in FormsOf(audio) : addMedicine(f)
    \/ \E i \in 1..Len(medicines) : markAsTakenCard(i)
    \/ \E i \in 1..Len(medicines) : toggleMedicine(i)
    \/ \E i \in 1..Len(medicines) : deleteMedicine(i)
    \/ \E outcome \in AudioOutcomes : PlayResolve(outcome)
    \/ SoundAutoStop
    \/ Unmount
    \/ Advance

Spec == Init /\ [][Next]_vars

\* the same component with an audio module that may fail and answer late
InitAudio ==
    /\ NotifyAtRest
    /\ medicines = <<>>
    /\ activeAlarm = None
    /\ showAlarmModal = FALSE
    /\ now = StartInstant
    /\ alarmCheckRef = [at |-> StartInstant + CheckPeriodMs,
                        medicines |-> <<>>, activeAlarm |-> None]
    /\ snoozeTimers = <<>>
    /\ effectPending = FALSE
    /\ created = 0
    /\ userOps = 0
    /\ lastDue = <<>>
    /\ lastNotices = {}
    /\ rungOnce = {}
    /\ rungTwice = {}
    /\ dropped = {}
    /\ lastOutcome = "none"
    /\ saved = <<>>
    /\ asyncStorage = [mode |-> "prompt", pending |-> <<>>,
                       items |-> StorageKey :> JSONStringify(<<>>)]
    /\ mounted = TRUE
    /\ intervals = {alarmCheckRef}
    /\ pendingPlay = 0
    /\ cues = 0
    /\ soundRef = None
    /\ sounds = {}
    /\ soundStopTimers = {}
    /\ vibrationRef = None
    /\ vibrationIntervals = {}
    /\ vibrating = FALSE
    /\ audio \in AudioOutcomes

SpecAudio == InitAudio /\ [][Next]_vars

\* AsyncStorage completes the oldest call in flight: a setItem stores its text,
\* a getItem hands the stored text to loadMedicines, which replaces the list
\* when there is one.
StorageComplete ==
    /\ ~effectPending
    /\ asyncStorage.pending # <<>>
    /\ LET call == Head(asyncStorage.pending)
           stored == IF call.key \in DOMAIN asyncStorage.items
                     THEN Some(asyncStorage.items[call.key]) ELSE None
       IN  /\ asyncStorage' =
                [asyncStorage EXCEPT
                    !.pending = Tail(@),
                    !.items = IF call.op = "set" THEN (call.key :> call.value) @@ @ ELSE @]
           /\ IF call.op = "get" /\ stored # None /\ mounted
              THEN /\ medicines' = JSONParse(The(stored))
                   /\ effectPending' = TRUE
              ELSE UNCHANGED <<medicines, effectPending>>
    /\ lastDue' = <<>>
    /\ lastNotices' = {}
    /\ lastOutcome' = "none"
    /\ UNCHANGED <<activeAlarm, showAlarmModal, alarmCheckRef, snoozeTimers, now, created,
                   userOps, rungOnce, rungTwice, dropped, saved, mounted, intervals,
                   pendingPlay>>
    /\ UNCHANGED cueVars
    /\ UNCHANGED notifVars

\* pull-to-refresh on the list: loadMedicines again
onRefresh ==
    /\ UserOp
    /\ ~showAlarmModal
    /\ asyncStorage' = setItem(asyncStorage, loadMedicines)
    /\ lastDue' = <<>>
    /\ lastNotices' = {}
    /\ lastOutcome' = "none"
    /\ UNCHANGED <<medicines, activeAlarm, showAlarmModal, alarmCheckRef, snoozeTimers,
                   effectPending, now, created, rungOnce, rungTwice, dropped, saved,
                   mounted, intervals, pendingPlay>>
    /\ UNCHANGED cueVars
    /\ UNCHANGED notifVars

\* the component has mounted on a device that has nothing stored: the load
\* effect has called getItem and the save effect has called setItem with the
\* empty list, and neither call has completed
InitStore ==
    /\ NotifyAtRest
    /\ medicines = <<>>
    /\ activeAlarm = None
    /\ showAlarmModal = FALSE
    /\ now = StartInstant
    /\ alarmCheckRef = [at |-> StartInstant + CheckPeriodMs,
                        medicines |-> <<>>, activeAlarm |-> None]
    /\ snoozeTimers = <<>>
    /\ effectPending = FALSE
    /\ created = 0
    /\ userOps = 0
    /\ lastDue = <<>>
    /\ lastNotices = {}
    /\ rungOnce = {}
    /\ rungTwice = {}
    /\ dropped = {}
    /\ lastOutcome = "none"
    /\ saved = <<>>
    /\ asyncStorage = [mode |-> "queued",
                       pending |-> <<loadMedicines, saveMedicines(<<>>)>>,
                       items |-> <<>>]
    /\ mounted = TRUE
    /\ intervals = {alarmCheckRef}
    /\ pendingPlay = 0
    /\ cues = 0
    /\ soundRef = None
    /\ sounds = {}
    /\ soundStopTimers = {}
    /\ vibrationRef = None
    /\ vibrationIntervals = {}
    /\ vibrating = FALSE
    /\ audio = "prompt"

\* the handlers of the medicine list and the storage, at the start instant
NextStore ==
    \/ RecheckEffect
    \/ StorageComplete
    \/ onRefresh
    \/ \E f \in Forms : addMedicine(f)
    \/ \E i \in 1..Len(medicines) : markAsTakenCard(i)
    \/ \E i \in 1..Len(medicines) : toggleMedicine(i)
    \/ \E i \in 1..Len(medicines) : deleteMedicine(i)

SpecStore == InitStore /\ [][NextStore]_vars

----------------------------------------------------------------------------
(* Start of the app on a device that holds a stored list *)

\* the list a previous run of the app left in storage: one daily medicine
StoredBefore ==
    <<NewMedicine(CHOOSE f \in Forms : f.name = <<"a", "b">>, 1)>>

\* the call at the head of the queue rejects: the catch block of
\* loadMedicines or saveMedicines reports it and nothing else changes
StorageFail ==
    /\ ~effectPending
    /\ asyncStorage.pending # <<>>
    /\ asyncStorage' = [asyncStorage EXCEPT !.pending = Tail(@)]
    /\ lastOutcome' = IF Head(asyncStorage.pending).op = "get"
                      THEN "loadError" ELSE "saveError"
    /\ lastDue' = <<>>
    /\ lastNotices' = {}
    /\ UNCHANGED <<medicines, effectPending, activeAlarm, showAlarmModal, alarmCheckRef,
                   snoozeTimers, now, created, userOps, rungOnce, rungTwice, dropped,
                   saved, mounted, intervals, pendingPlay>>
    /\ UNCHANGED cueVars
    /\ UNCHANGED notifVars

\* the component has mounted with the empty list of useState: the load
\* effect has called getItem and the save effect has called setItem with the
\* empty list, and neither call has completed
InitStartup ==
    /\ NotifyAtRest
    /\ medicines = <<>>
    /\ activeAlarm = None
    /\ showAlarmModal = FALSE
    /\ now = StartInstant
    /\ alarmCheckRef = [at |-> StartInstant + CheckPeriodMs,
                        medicines |-> <<>>, activeAlarm |-> None]
    /\ snoozeTimers = <<>>
    /\ effectPending = FALSE
    /\ created = Len(StoredBefore)
    /\ userOps = 0
    /\ lastDue = <<>>
    /\ lastNotices = {}
    /\ rungOnce = {}
    /\ rungTwice = {}
    /\ dropped = {}
    /\ lastOutcome = "none"
    /\ saved = <<>>
    /\ asyncStorage = [mode |-> "queued",
                       pending |-> <<loadMedicines, saveMedicines(<<>>)>>,
                       items |-> StorageKey :> JSONStringify(StoredBefore)]
    /\ mounted = TRUE
    /\ intervals = {alarmCheckRef}
    /\ pendingPlay = 0
    /\ cues = 0
    /\ soundRef = None
    /\ sounds = {}
    /\ soundStopTimers = {}
    /\ vibrationRef = None
    /\ vibrationIntervals = {}
    /\ vibrating = FALSE
    /\ audio = "prompt"

\* the storage calls complete or reject; the user works on the loaded list
NextStartup ==
    \/ RecheckEffect
    \/ StorageComplete
    \/ StorageFail
    \/ onRefresh
    \/ \E i \in 1..Len(medicines) : markAsTakenCard(i)
    \/ \E i \in 1..Len(medicines) : toggleMedicine(i)
    \/ \E i \in 1..Len(medicines) : deleteMedicine(i)

SpecStartup == InitStartup /\ [][NextStartup]_vars

----------------------------------------------------------------------------
(* The card of one stored medicine, rendered as the clock moves *)

\* the alarm machine at rest: nothing rings, no timer but the recheck interval
AtRest ==
    /\ activeAlarm = None
    /\ showAlarmModal = FALSE
    /\ alarmCheckRef = [at |-> StartInstant + CheckPeriodMs,
                        medicines |-> <<>>, activeAlarm |-> None]
    /\ snoozeTimers = <<>>
    /\ effectPending = FALSE
    /\ userOps = 0
    /\ lastDue = <<>>
    /\ lastNotices = {}
    /\ rungOnce = {}
    /\ rungTwice = {}
    /\ dropped = {}
    /\ lastOutcome = "none"
    /\ mounted = TRUE
    /\ intervals = {alarmCheckRef}
    /\ pendingPlay = 0
    /\ cues = 0
    /\ soundRef = None
    /\ sounds = {}
    /\ soundStopTimers = {}
    /\ vibrationRef = None
    /\ vibrationIntervals = {}
    /\ vibrating = FALSE
    /\ audio = "prompt"

\* the times lists and schedules of the cards rendered
CardTimes ==
    { <<T0800>>, <<T0801>>, <<T0801, T0800>>, <<FormatHHMM(0, 0)>>,
      <<FormatHHMM(23, 59), FormatHHMM(16, 0)>>, <<FormatHHMM(23, 59)>>,
      <<<<"8", ":", "0", "0">>, FormatHHMM(0, 1)>> }

CardForms ==
    { [name |-> <<"a", "b">>, dosage |-> <<"1", "g">>, times |-> ts,
       frequency |-> fw[1], weeklyDays |-> fw[2], stock |-> <<>>, stockAlert |-> <<>>] :
      ts \in CardTimes,
      fw \in {<<"daily", {}>>, <<"weekly", {1, 3, 5}>>, <<"weekly", {2, 3}>>} }

InitCard ==
    /\ now = StartInstant
    /\ \E f \in CardForms : medicines = <<NewMedicine(f, 1)>>
    /\ created = 1
    /\ saved = medicines
    /\ asyncStorage = [mode |-> "prompt", pending |-> <<>>,
                       items |-> StorageKey :> JSONStringify(medicines)]
    /\ AtRest
    /\ NotifyAtRest

\* the card is rendered again half a minute later
CardTick ==
    /\ now + TimeStep <= Horizon
    /\ now' = now + TimeStep
    /\ UNCHANGED <<medicines, activeAlarm, showAlarmModal, alarmCheckRef, snoozeTimers,
                   effectPending, created, userOps, lastDue, lastNotices, rungOnce,
                   rungTwice, dropped, lastOutcome, saved, asyncStorage, notifVars, mounted,
                   intervals, pendingPlay>>
    /\ UNCHANGED cueVars

\* the card is rendered again eight hours later
CardSkip ==
    /\ now + 8 * MsPerHour <= StartInstant + MaxDays * MsPerDay
    /\ now' = now + 8 * MsPerHour
    /\ UNCHANGED <<medicines, activeAlarm, showAlarmModal, alarmCheckRef, snoozeTimers,
                   effectPending, created, userOps, lastDue, lastNotices, rungOnce,
                   rungTwice, dropped, lastOutcome, saved, asyncStorage, notifVars, mounted,
                   intervals, pendingPlay>>
    /\ UNCHANGED cueVars

NextCard == CardTick \/ CardSkip

SpecCard == InitCard /\ [][NextCard]_vars

----------------------------------------------------------------------------
(* The notification screen (src/app/index.tsx): the same list, one time per
   form, and local notifications scheduled through PushNotification *)

appVars == <<activeAlarm, showAlarmModal, alarmCheckRef, snoozeTimers, effectPending,
             lastDue, lastNotices, rungOnce, rungTwice, dropped, saved, asyncStorage,
             mounted, intervals, pendingPlay>>

\* number of identifiers cancelNotifications tries for one medicine
CancelTries == 10

\* PushNotification && typeof PushNotification.configure === 'function'
isPushNotificationAvailable == pushAvailable

NotificationsReady == notificationsEnabled /\ isNotificationConfigured

\* `${medicine.id}_${index}`
NotificationId(medicineId, index) ==
    NumToString(medicineId) \o <<"_">> \o NumToString(index)

\* variant: today's date is kept when it equals the scheduling instant
NotificationDate_KeepsEqual(time, t) ==
    LET hm == SplitColon(time)
        today == (t \div MsPerDay) * MsPerDay
                   + The(Number(hm[1])) * MsPerHour + The(Number(hm[2])) * MsPerMinute
    IN  IF today < t THEN today + MsPerDay ELSE today

\* new Date(); setHours(hours, minutes, 0, 0); one day later when that is not
\* after the scheduling instant
NotificationDate(time, t) ==
    LET hm == SplitColon(time)
        today == (t \div MsPerDay) * MsPerDay
                   + The(Number(hm[1])) * MsPerHour + The(Number(hm[2])) * MsPerMinute
    IN  IF today <= t THEN today + MsPerDay ELSE today

\* variant: every time of the medicine is scheduled under the medicine's
\* first identifier
scheduleNotification_OneId(medicine, t) ==
    IF ~NotificationsReady THEN [calls |-> <<>>, alert |-> FALSE]
    ELSE IF ~pushAvailable THEN [calls |-> <<>>, alert |-> medicine.times # <<>>]
    ELSE [calls |-> [i \in 1..Len(medicine.times) |->
                       [fn |-> "localNotificationSchedule",
                        id |-> NotificationId(medicine.id, 0),
                        date |-> NotificationDate(medicine.times[i], t),
                        repeatType |-> IF medicine.frequency = "daily"
                                       THEN "day" ELSE "week"]],
          alert |-> FALSE]

\* scheduleNotification: the calls it makes on PushNotification and whether
\* its catch shows the error Alert (a call on a module that is not there
\* throws)
scheduleNotification(medicine, t) ==
    IF ~NotificationsReady THEN [calls |-> <<>>, alert |-> FALSE]
    ELSE IF ~pushAvailable THEN [calls |-> <<>>, alert |-> medicine.times # <<>>]
    ELSE [calls |-> [i \in 1..Len(medicine.times) |->
                       [fn |-> "localNotificationSchedule",
                        id |-> NotificationId(medicine.id, i - 1),
                        date |-> NotificationDate(medicine.times[i], t),
                        repeatType |-> IF medicine.frequency = "daily"
                                       THEN "day" ELSE "week"]],
          alert |-> FALSE]

\* cancelNotifications: the calls it makes; its catch only logs
cancelNotifications(medicineId) ==
    IF ~NotificationsReady \/ ~pushAvailable THEN <<>>
    ELSE [i \in 1..CancelTries |->
            [fn |-> "cancelLocalNotification", id |-> NotificationId(medicineId, i - 1)]]

\* what the system holds after the calls: a schedule call replaces the
\* notification of the same id, a cancel call removes it
AfterCalls(held, calls) ==
    LET touched == {calls[i].id : i \in {j \in 1..Len(calls) : calls[j].fn # "localNotification"}}
        added == {[id |-> calls[i].id, date |-> calls[i].date,
                   repeatType |-> calls[i].repeatType] :
                  i \in {j \in 1..Len(calls) : calls[j].fn = "localNotificationSchedule"}}
    IN  {n \in held : n.id \notin touched} \cup added

\* the forms of this screen: name, dosage, one time, frequency
IdxForms ==
    { [name |-> <<"a", "b">>, dosage |-> <<"1", "g">>, time |-> T0800, frequency |-> "daily"],
      [name |-> <<"c", "d">>, dosage |-> <<"2", "g">>, time |-> T0801, frequency |-> "weekly"],
      [name |-> <<"e", "f">>, dosage |-> <<"1", "g">>, time |-> <<>>, frequency |-> "daily"] }

IdxValidateForm(f) ==
    /\ validateMedicineName(f.name)
    /\ validateDosage(f.dosage)
    /\ validateTime(f.time)

IdxNewMedicine(f, id) ==
    [ id        |-> id,
      name      |-> Trim(f.name),
      dosage    |-> Trim(f.dosage),
      times     |-> <<f.time>>,
      frequency |-> f.frequency,
      isActive  |-> TRUE,
      lastTaken |-> None ]

\* a list the multi-time screen stored under the same key: one medicine with
\* two times, switched off
StoredTwoTimes ==
    << [ id |-> 1, name |-> <<"g", "h">>, dosage |-> <<"1", "g">>,
         times |-> <<T0800, T0801>>, frequency |-> "weekly", isActive |-> FALSE,
         lastTaken |-> None ] >>

\* the screen has mounted, its list is loaded and the setup effect is about to
\* run; nothing is scheduled yet
InitNotify ==
    /\ now = StartInstant
    /\ medicines \in {<<>>, StoredTwoTimes}
    /\ created = Len(medicines)
    /\ saved = medicines
    /\ asyncStorage = [mode |-> "prompt", pending |-> <<>>,
                       items |-> StorageKey :> JSONStringify(<<>>)]
    /\ AtRest
    /\ notificationsEnabled = FALSE
    /\ isNotificationConfigured = FALSE
    /\ initializationRef = [isInitialized |-> FALSE, isConfigured |-> FALSE,
                            initializationAttempted |-> FALSE]
    /\ pushAvailable \in BOOLEAN
    /\ registration = "mounting"
    /\ initTimers = [fallback |-> 0, retry |-> 0]
    /\ scheduled = {}
    /\ pushCalls = <<>>

\* the frame of a step of this screen that leaves the list alone
NotifyOnly ==
    /\ lastOutcome' = "none"
    /\ UNCHANGED <<medicines, now, created>>
    /\ UNCHANGED appVars
    /\ UNCHANGED cueVars

\* variant: the fallback timer is armed before the module is looked for
initializeNotifications_ArmsFirst ==
    /\ registration = "mounting"
    /\ ~initializationRef.initializationAttempted
    /\ initializationRef' = [initializationRef EXCEPT !.initializationAttempted = TRUE]
    /\ \E granted \in BOOLEAN :
          IF ~isPushNotificationAvailable
          THEN /\ notificationsEnabled' = FALSE
               /\ isNotificationConfigured' = FALSE
               /\ registration' = "off"
               /\ initTimers' = [initTimers EXCEPT !.fallback = @ + 1]
               /\ pushCalls' = <<>>
          ELSE IF ~granted
          THEN /\ notificationsEnabled' = FALSE
               /\ registration' = "off"
               /\ pushCalls' = <<>>
               /\ UNCHANGED <<isNotificationConfigured, initTimers>>
          ELSE /\ registration' = "configuring"
               /\ initTimers' = [initTimers EXCEPT !.fallback = @ + 1]
               /\ pushCalls' = <<[fn |-> "configure"]>>
               /\ UNCHANGED <<notificationsEnabled, isNotificationConfigured>>
    /\ UNCHANGED <<pushAvailable, scheduled, userOps>>
    /\ NotifyOnly

\* useEffect: initializeNotifications, with the answer to the permission
\* request it awaits
initializeNotifications ==
    /\ registration = "mounting"
    /\ ~initializationRef.initializationAttempted
    /\ initializationRef' = [initializationRef EXCEPT !.initializationAttempted = TRUE]
    /\ \E granted \in BOOLEAN :
          IF ~isPushNotificationAvailable
          THEN /\ notificationsEnabled' = FALSE
               /\ isNotificationConfigured' = FALSE
               /\ registration' = "off"
               /\ pushCalls' = <<>>
               /\ UNCHANGED initTimers
          ELSE IF ~granted
          THEN /\ notificationsEnabled' = FALSE
               /\ registration' = "off"
               /\ pushCalls' = <<>>
               /\ UNCHANGED <<isNotificationConfigured, initTimers>>
          ELSE /\ registration' = "configuring"
               /\ initTimers' = [initTimers EXCEPT !.fallback = @ + 1]
               /\ pushCalls' = <<[fn |-> "configure"]>>
               /\ UNCHANGED <<notificationsEnabled, isNotificationConfigured>>
    /\ UNCHANGED <<pushAvailable, scheduled, userOps>>
    /\ NotifyOnly

\* onRegister of configure, and createNotificationChannel with its callback
onRegister ==
    /\ registration \in {"configuring", "reconfiguring"}
    /\ registration' = "registered"
    /\ notificationsEnabled' = TRUE
    /\ initializationRef' = [initializationRef EXCEPT !.isInitialized = TRUE,
                                                       !.isConfigured = TRUE]
    /\ isNotificationConfigured' = TRUE
    /\ pushCalls' = <<[fn |-> "createChannel"]>>
    /\ UNCHANGED <<pushAvailable, initTimers, scheduled, userOps>>
    /\ NotifyOnly

\* onRegistrationError of the configure call made at mount
onRegistrationError ==
    /\ registration = "configuring"
    /\ registration' = "failed"
    /\ notificationsEnabled' = FALSE
    /\ isNotificationConfigured' = FALSE
    /\ pushCalls' = <<>>
    /\ UNCHANGED <<initializationRef, pushAvailable, initTimers, scheduled, userOps>>
    /\ NotifyOnly

\* the 5 s setTimeout of initializeNotifications
FallbackTimer ==
    /\ initTimers.fallback > 0
    /\ initTimers' = [initTimers EXCEPT !.fallback = @ - 1]
    /\ IF ~initializationRef.isConfigured
       THEN /\ notificationsEnabled' = TRUE
            /\ isNotificationConfigured' = TRUE
       ELSE UNCHANGED <<notificationsEnabled, isNotificationConfigured>>
    /\ pushCalls' = <<>>
    /\ UNCHANGED <<initializationRef, pushAvailable, registration, scheduled, userOps>>
    /\ NotifyOnly

IdxUserOp ==
    /\ registration # "mounting"
    /\ userOps < MaxUserOps
    /\ userOps' = userOps + 1

\* the retry button, shown while the notifications are not ready
retryNotificationSetup ==
    /\ IdxUserOp
    /\ ~NotificationsReady
    /\ initializationRef' = [isInitialized |-> FALSE, isConfigured |-> FALSE,
                             initializationAttempted |-> FALSE]
    /\ notificationsEnabled' = FALSE
    /\ isNotificationConfigured' = FALSE
    /\ initTimers' = [initTimers EXCEPT !.retry = @ + 1]
    /\ pushCalls' = <<>>
    /\ UNCHANGED <<pushAvailable, registration, scheduled>>
    /\ NotifyOnly

\* the 1 s setTimeout of retryNotificationSetup
RetryTimer ==
    /\ initTimers.retry > 0
    /\ initTimers' = [initTimers EXCEPT !.retry = @ - 1]
    /\ \E granted \in BOOLEAN :
          IF isPushNotificationAvailable /\ granted
          THEN /\ registration' = "reconfiguring"
               /\ pushCalls' = <<[fn |-> "configure"]>>
          ELSE /\ pushCalls' = <<>>
               /\ UNCHANGED registration
    /\ UNCHANGED <<notificationsEnabled, isNotificationConfigured, initializationRef,
                   pushAvailable, scheduled, userOps>>
    /\ NotifyOnly

\* the test button, shown while the notifications are ready
testNotification ==
    /\ IdxUserOp
    /\ NotificationsReady
    /\ pushCalls' = IF pushAvailable THEN <<[fn |-> "localNotification"]>> ELSE <<>>
    /\ UNCHANGED <<notificationsEnabled, isNotificationConfigured, initializationRef,
                   pushAvailable, registration, initTimers, scheduled>>
    /\ lastOutcome' = IF pushAvailable THEN "none" ELSE "testError"
    /\ UNCHANGED <<medicines, now, created>>
    /\ UNCHANGED appVars
    /\ UNCHANGED cueVars

\* the frame of a list handler of this screen, given the calls it made
IdxHandled(calls) ==
    /\ pushCalls' = calls
    /\ scheduled' = AfterCalls(scheduled, calls)
    /\ UNCHANGED <<notificationsEnabled, isNotificationConfigured, initializationRef,
                   pushAvailable, registration, initTimers, now>>
    /\ UNCHANGED appVars
    /\ UNCHANGED cueVars

IdxAddMedicine(f) ==
    /\ registration # "mounting"
    /\ userOps < MaxUserOps
    /\ Len(medicines) < MaxMedicines
    /\ IF IdxValidateForm(f) /\ ~NameTaken(medicines, f)
       THEN LET medicine == IdxNewMedicine(f, DateNowId)
                r == IF NotificationsReady THEN scheduleNotification(medicine, now)
                     ELSE [calls |-> <<>>, alert |-> FALSE]
            IN  /\ medicines' = Append(medicines, medicine)
                /\ created' = created + 1
                /\ userOps' = userOps + 1
                /\ lastOutcome' = IF r.alert THEN "scheduleError" ELSE "added"
                /\ IdxHandled(r.calls)
       ELSE /\ lastOutcome' = IF IdxValidateForm(f) THEN "duplicate" ELSE "invalid"
            /\ UNCHANGED <<medicines, created, userOps>>
            /\ IdxHandled(<<>>)

IdxMarkAsTaken(i) ==
    /\ IdxUserOp
    /\ medicines' = [medicines EXCEPT ![i].lastTaken = Some(now)]
    /\ lastOutcome' = "none"
    /\ UNCHANGED created
    /\ IdxHandled(<<>>)

IdxToggleMedicine(i) ==
    /\ IdxUserOp
    /\ medicines' = ToggleActive(medicines, medicines[i].id)
    /\ LET medicine == medicines[i]
           r == IF medicine.isActive
                THEN [calls |-> cancelNotifications(medicine.id), alert |-> FALSE]
                ELSE IF NotificationsReady
                THEN scheduleNotification([medicine EXCEPT !.isActive = TRUE], now)
                ELSE [calls |-> <<>>, alert |-> FALSE]
       IN  /\ lastOutcome' = IF r.alert THEN "scheduleError" ELSE "none"
           /\ IdxHandled(r.calls)
    /\ UNCHANGED created

IdxDeleteMedicine(i) ==
    /\ IdxUserOp
    /\ medicines' = RemoveById(medicines, medicines[i].id)
    /\ lastOutcome' = "none"
    /\ UNCHANGED created
    /\ IdxHandled(cancelNotifications(medicines[i].id))

\* the process ends and the app is opened again: the component state starts
\* over (its timers are gone) and the setup effect is about to run, the list
\* comes back from the storage, the system still holds the scheduled
\* notifications
Relaunch ==
    /\ IdxUserOp
    /\ notificationsEnabled' = FALSE
    /\ isNotificationConfigured' = FALSE
    /\ initializationRef' = [isInitialized |-> FALSE, isConfigured |-> FALSE,
                             initializationAttempted |-> FALSE]
    /\ registration' = "mounting"
    /\ initTimers' = [fallback |-> 0, retry |-> 0]
    /\ pushCalls' = <<>>
    /\ UNCHANGED <<pushAvailable, scheduled>>
    /\ NotifyOnly

NotifyAdvance ==
    /\ registration # "mounting"
    /\ initTimers = [fallback |-> 0, retry |-> 0]
    /\ now + TimeStep <= StartInstant + MaxNotifySteps * TimeStep
    /\ now' = now + TimeStep
    /\ pushCalls' = <<>>
    /\ lastOutcome' = "none"
    /\ UNCHANGED <<notificationsEnabled, isNotificationConfigured, initializationRef,
                   pushAvailable, registration, initTimers, scheduled, medicines,
                   created, userOps>>
    /\ UNCHANGED appVars
    /\ UNCHANGED cueVars

NextNotify ==
    \/ initializeNotifications
    \/ onRegister
    \/ onRegistrationError
    \/ FallbackTimer
    \/ retryNotificationSetup
    \/ RetryTimer
    \/ testNotification
    \/ \E f \in IdxForms : IdxAddMedicine(f)
    \/ \E i \in 1..Len(medicines) : IdxMarkAsTaken(i)
    \/ \E i \in 1..Len(medicines) : IdxToggleMedicine(i)
    \/ \E i \in 1..Len(medicines) : IdxDeleteMedicine(i)
    \/ Relaunch
    \/ NotifyAdvance

SpecNotify == InitNotify /\ [][NextNotify]_vars

----------------------------------------------------------------------------
(* Properties *)

CheckStep == RecheckTick \/ RecheckEffect
SnoozeStep == \E i \in 1..Len(snoozeTimers) : SnoozeFire(i)
RaisedFor(id, events) == \E i \in 1..Len(events) : events[i].medicineId = id
CheckedNow ==
    /\ ~effectPending
    /\ alarmCheckRef \in intervals
    /\ alarmCheckRef.at = now + CheckPeriodMs

\* C1: while an alarm is ringing, a due-event delivered by the recheck (its
\* interval or the effect run) or by an elapsed snooze timer is dropped: the
\* active alarm and the presentation stay as they are.
C1_DueEventDroppedWhileRinging ==
    [][(activeAlarm # None /\ (CheckStep \/ SnoozeStep))
         => (activeAlarm' = activeAlarm /\ showAlarmModal' = showAlarmModal)]_vars

\* an alarm is ringing and the step before delivered a snoozed alarm's re-trigger
C1_Witness ==
    /\ activeAlarm # None
    /\ lastDue # <<>>
    /\ lastDue[1].snoozeCount = 1

\* C2: when the snooze delay of an alarm with snoozeCount n elapses and no
\* alarm is ringing, the machine rings again for the same medicine and time
\* with snoozeCount n + 1.
C2_SnoozeRingsAgain ==
    [][\A i \in 1..Len(snoozeTimers) :
          (SnoozeFire(i) /\ activeAlarm = None)
            => /\ activeAlarm' = Some([snoozeTimers[i].alarm EXCEPT !.snoozeCount = @ + 1])
               /\ showAlarmModal']_vars

C4_DailyDueIff ==
    [][CheckStep =>
         \A i \in 1..Len(medicines) :
            (/\ medicines[i].isActive
             /\ medicines[i].frequency = "daily"
             /\ Len(medicines[i].times) = 1)
            => (RaisedFor(medicines[i].id, lastDue')
                  <=> /\ medicines[i].times[1] = FormatHHMM(getHours(now), getMinutes(now))
                      /\ \/ medicines[i].lastTaken = None
                         \/ now - The(medicines[i].lastTaken) > 60 * 1000)]_vars

\* a due-check just ran in the matching minute of a medicine taken exactly one
\* minute ago and raised nothing
C4_Witness ==
    /\ CheckedNow
    /\ lastDue = <<>>
    /\ \E i \in 1..Len(medicines) :
          /\ medicines[i].isActive
          /\ medicines[i].frequency = "daily"
          /\ medicines[i].times = <<currentTime(now)>>
          /\ medicines[i].lastTaken = Some(now - 60 * 1000)

\* every ringing alarm of a weekly medicine started on one of its weeklyDays
AlarmOnListedDay ==
    \A i \in 1..Len(medicines) :
        (/\ medicines[i].frequency = "weekly"
         /\ medicines[i].weeklyDays # None
         /\ activeAlarm # None
         /\ The(activeAlarm).medicineId = medicines[i].id)
        => \E k \in rungOnce :
              /\ k[1] = medicines[i].id
              /\ (k[2] \div (24 * 60)) % 7 \in The(medicines[i].weeklyDays)

TakeStep(i) ==
    \/ markAsTakenCard(i)
    \/ markAsTakenFromAlarm /\ The(activeAlarm).medicineId = medicines[i].id

\* C6: a take-action on a medicine with stock n >= 1 leaves n - 1, and on a
\* medicine with stock 0 leaves 0.
C6_TakeDecrementsWithFloor ==
    [][\A i \in 1..Len(medicines) :
          (TakeStep(i) /\ medicines[i].stock # None)
            => medicines'[i].stock =
                 Some(IF The(medicines[i].stock) >= 1 THEN The(medicines[i].stock) - 1 ELSE 0)]_vars

\* C7: no record ever has a negative stock.
C7_StockNeverNegative ==
    \A i \in 1..Len(medicines) :
        medicines[i].stock # None => The(medicines[i].stock) >= 0

\* a record whose stock a take-action brought down to 0
C7_Witness ==
    \E i \in 1..Len(medicines) :
        /\ medicines[i].stock = Some(0)
        /\ medicines[i].lastTaken # None

\* C8: for one medicine and one scheduled minute at most one fresh alarm
\* (snoozeCount 0) starts ringing.
C8_OneFreshAlarmPerMinute == rungTwice = {}

\* C9: dismissing a ringing alarm ends in Idle with the presentation closed
\* and changes no record of the store.
C9_DismissLeavesStore ==
    [][(stopAlarm /\ activeAlarm # None)
         => /\ activeAlarm' = None
            /\ showAlarmModal' = FALSE
            /\ medicines' = medicines]_vars

\* an alarm has rung and was dismissed: Idle, no snooze armed, nothing taken
C9_Witness ==
    /\ activeAlarm = None
    /\ ~showAlarmModal
    /\ effectPending
    /\ rungOnce # {}
    /\ snoozeTimers = <<>>
    /\ userOps = 2
    /\ \A i \in 1..Len(medicines) : medicines[i].lastTaken = None /\ medicines[i].isActive

Masked(med) == [med EXCEPT !.lastTaken = None, !.stock = None]

\* C10: a take-action from a ringing alarm ends in Idle, stamps lastTaken = now
\* on exactly the one record with the alarm's medicineId, touches nothing but
\* lastTaken and stock of that record, and leaves every other record as it was.
C10_TakeFromAlarmFrame ==
    [][markAsTakenFromAlarm =>
         /\ activeAlarm' = None
         /\ showAlarmModal' = FALSE
         /\ Len(medicines') = Len(medicines)
         /\ Cardinality({i \in 1..Len(medicines) :
                            medicines[i].id = The(activeAlarm).medicineId}) = 1
         /\ \A i \in 1..Len(medicines) :
               IF medicines[i].id = The(activeAlarm).medicineId
               THEN /\ medicines'[i].lastTaken = Some(now)
                    /\ Masked(medicines'[i]) = Masked(medicines[i])
                    /\ medicines'[i].stock \in {None} \cup
                          {Some(n) : n \in 0..(IF medicines[i].stock = None THEN 0
                                               ELSE The(medicines[i].stock))}
               ELSE medicines'[i] = medicines[i]]_vars

\* the alarm of one of two records was just answered with a take-action
C10_Witness ==
    /\ activeAlarm = None
    /\ effectPending
    /\ Len(medicines) = 2
    /\ \E i \in 1..2 :
          /\ medicines[i].lastTaken = Some(now)
          /\ RingKey([medicineId |-> medicines[i].id], now) \in rungOnce
          /\ medicines[3 - i].lastTaken = None

\* C11: when several medicines are due in one check while the machine is
\* Idle, the alarm that starts ringing is the one of the first due record in
\* list order.
C11_FirstDueRings ==
    [][(CheckStep /\ activeAlarm = None /\ lastDue' # <<>>)
         => activeAlarm' = Some(lastDue'[1])]_vars

\* C12: a medicine whose due-event lost the alarm to another medicine, and
\* that was not taken, deactivated or deleted since, is re-triggered by the
\* recheck tick that finds the machine Idle again.
C12_DroppedIsRetriggered ==
    [][(RecheckTick /\ activeAlarm = None)
         => \A i \in 1..Len(medicines) :
               (/\ medicines[i].id \in dropped
                /\ medicines[i].isActive
                /\ medicines[i].lastTaken = None)
               => RaisedFor(medicines[i].id, lastDue')]_vars

\* the due condition as the data model words it
DueAt(med, t) ==
    /\ med.isActive
    /\ LET hhmm == FormatHHMM(getHours(t), getMinutes(t))
       IN  \E k \in 1..Len(med.times) : med.times[k] = hhmm
    /\ med.frequency = "weekly" => (med.weeklyDays = None \/ getDay(t) \in The(med.weeklyDays))
    /\ med.lastTaken = None \/ t - The(med.lastTaken) > 60 * 1000

\* C15: when the recheck loop is started with a list in which a record is due
\* in the current minute, the due-check runs at the start and the alarm rings
\* then, at the same instant.
C15_CheckAtLoopStart ==
    [][(/\ activeAlarm = None
        /\ RecheckEffect
        /\ \E i \in 1..Len(medicines) : DueAt(medicines[i], now))
         => /\ activeAlarm' # None
            /\ showAlarmModal'
            /\ now' = now
            /\ \E i \in 1..Len(medicines) :
                  /\ DueAt(medicines[i], now)
                  /\ The(activeAlarm').medicineId = medicines[i].id]_vars

\* an alarm rings at 08:00:00, half a period after the interval started at
\* mount: no interval tick falls on this instant, the loop start raised it
C15_Witness ==
    /\ activeAlarm # None
    /\ now = StartInstant + TimeStep
    /\ RingKey(The(activeAlarm), now) \in rungOnce

\* C17: every due-check raises the low-stock notice for each due medicine
\* with stock and stockAlert defined and stock <= stockAlert, whatever the
\* alarm state.
C17_LowStockNoticeAlways ==
    [][CheckStep =>
         \A i \in 1..Len(medicines) :
            (/\ DueAt(medicines[i], now)
             /\ medicines[i].stock # None
             /\ medicines[i].stockAlert # None
             /\ The(medicines[i].stock) <= The(medicines[i].stockAlert))
            => medicines[i].id \in lastNotices']_vars

\* a check ran while an alarm was ringing: the due-event of another medicine
\* was dropped and its low-stock notice raised
C17_Witness ==
    /\ activeAlarm # None
    /\ ~effectPending
    /\ \E id \in lastNotices :
          /\ id # The(activeAlarm).medicineId
          /\ RaisedFor(id, lastDue)

\* C18: an inactive medicine gets no due-event and no low-stock notice;
\* toggling changes isActive of that record only, the record stays in the
\* list, and once the effects of the commit have run the list saved is the
\* list in memory.
C18_InactiveIsSilentAndKept ==
    [][/\ CheckStep =>
            \A i \in 1..Len(medicines) :
               ~medicines[i].isActive
               => /\ ~RaisedFor(medicines[i].id, lastDue')
                  /\ medicines[i].id \notin lastNotices'
       /\ \A i \in 1..Len(medicines) :
            toggleMedicine(i) => medicines' = [medicines EXCEPT ![i].isActive = ~@]
       /\ (~effectPending' => saved' = medicines')]_vars

\* a check just ran in the matching minute of a deactivated, never taken
\* daily medicine and raised nothing; the record was saved
C18_Witness ==
    /\ CheckedNow
    /\ lastDue = <<>>
    /\ lastNotices = {}
    /\ saved = medicines
    /\ \E i \in 1..Len(medicines) :
          /\ ~medicines[i].isActive
          /\ medicines[i].frequency = "daily"
          /\ Includes(medicines[i].times, currentTime(now))
          /\ medicines[i].lastTaken = None
          /\ medicines[i].stock # None

\* C19: addMedicine with a name equal, ignoring case, to the name of an
\* existing record is rejected and leaves the list unchanged.
C19_DuplicateNameRejected ==
    [][\A f \in Forms :
          (/\ addMedicine(f)
           /\ \E i \in 1..Len(medicines) :
                 ToLowerCase(f.name) = ToLowerCase(medicines[i].name))
            => /\ medicines' = medicines
               /\ lastOutcome' # "added"]_vars

\* the last step rejected a form as a duplicate of a stored name
C19_Witness ==
    /\ lastOutcome = "duplicate"
    /\ medicines # <<>>

\* every stored record has at least one time, all matching the pattern
TimesWellFormed ==
    \A i \in 1..Len(medicines) :
        /\ Len(medicines[i].times) >= 1
        /\ \A k \in 1..Len(medicines[i].times) : validateTime(medicines[i].times[k])

\* C20: addMedicine is rejected and leaves the list unchanged when the
\* trimmed name or the trimmed dosage is shorter than 2 or an entered time
\* does not match the pattern; every stored record has at least one time and
\* only matching times.
C20_InvalidFormRejected ==
    [][/\ \A f \in Forms :
            (/\ addMedicine(f)
             /\ \/ Len(Trim(f.name)) < 2
                \/ Len(Trim(f.dosage)) < 2
                \/ \E k \in 1..Len(f.times) : ~validateTime(f.times[k]))
              => /\ medicines' = medicines
                 /\ lastOutcome' = "invalid"
       /\ TimesWellFormed']_vars

\* the last step rejected a form as invalid
C20_Witness == lastOutcome = "invalid"

\* C13: after the component unmounted no timer of the core is pending: the
\* recheck interval is cleared, no snooze timer is left to fire, and no
\* sound is loaded or playing.
C13_NoTimerAfterTeardown ==
    ~mounted => /\ intervals = {}
                /\ snoozeTimers = <<>>
                /\ \A s \in sounds : ~s.playing

\* C14: a due-event that gets past the guard of triggerAlarm puts the
\* machine in Ringing with the alarm presentation open, and when the audio
\* start it awaits fails (creating or playing), triggerAlarm still starts the
\* repeating vibration and its interval, leaves the alarm state alone and
\* lets no error escape.
C14_AudioFailureStillRings ==
    [][/\ ((CheckStep \/ SnoozeStep) /\ pendingPlay' > pendingPlay)
          => (activeAlarm' # None /\ showAlarmModal')
       /\ \A outcome \in {"createFails", "playFails"} :
            PlayResolve(outcome)
            => /\ vibrating'
               /\ vibrationRef' # None
               /\ The(vibrationRef') \in vibrationIntervals'
               /\ activeAlarm' = activeAlarm
               /\ showAlarmModal' = showAlarmModal
               /\ lastOutcome' # "escaped"]_vars

\* the audio start of the ringing alarm just failed: Ringing, presentation
\* open, vibration on, nothing playing
C14_Witness ==
    /\ lastOutcome \in {"createFails", "playFails"}
    /\ activeAlarm # None
    /\ showAlarmModal
    /\ vibrating
    /\ vibrationRef # None
    /\ pendingPlay = 0
    /\ \A s \in sounds : ~s.playing

\* C16: at most one recheck interval is live; while mounted it is the one
\* alarmCheckRef holds, so a restart has cleared the previous one; none is live
\* after unmount.
C16_OneRecheckInterval ==
    /\ Cardinality(intervals) <= 1
    /\ mounted => intervals = {alarmCheckRef}
    /\ ~mounted => intervals = {}

\* the loop was restarted for a list that had changed and for an alarm that
\* was ringing, then the component unmounted
C16_Witness ==
    /\ ~mounted
    /\ intervals = {}
    /\ alarmCheckRef.medicines # <<>>
    /\ alarmCheckRef.activeAlarm # None

\* C28: a due-check (interval tick or effect run) that runs no more than 60 s
\* after a medicine's recorded dose raises no due-event for that medicine and
\* starts no alarm for it; this covers the effect run that the take itself
\* causes in the matching minute.
C28_NoAlarmWithinGuard ==
    [][CheckStep =>
         \A i \in 1..Len(medicines) :
            (/\ medicines[i].lastTaken # None
             /\ now - The(medicines[i].lastTaken) <= 60 * 1000)
            => /\ ~RaisedFor(medicines[i].id, lastDue')
               /\ (activeAlarm' # activeAlarm /\ activeAlarm' # None)
                     => The(activeAlarm').medicineId # medicines[i].id]_vars

\* the effect re-ran the check in the matching minute of an active medicine
\* whose dose was recorded at this very instant, and nothing rings
C28_Witness ==
    /\ CheckedNow
    /\ lastDue = <<>>
    /\ activeAlarm = None
    /\ \E i \in 1..Len(medicines) :
          /\ medicines[i].isActive
          /\ Includes(medicines[i].times, currentTime(now))
          /\ isWeeklyDayActive(medicines[i], now)
          /\ medicines[i].lastTaken = Some(now)

\* C29: whenever the machine is Idle (no active alarm, presentation closed)
\* no loaded sound is playing, no vibration interval is live and the device is
\* not vibrating, whatever the order of stopAlarm and the audio start that
\* triggerAlarm awaits.
C29_IdleIsSilent ==
    (activeAlarm = None /\ ~showAlarmModal)
    => /\ \A s \in sounds : ~s.playing
       /\ vibrationIntervals = {}
       /\ ~vibrating

\* the alarm of a single ring was stopped while its audio start was pending
\* and the start then went through: Idle with the cue playing and vibrating
C29_StoppedBeforeStart ==
    /\ activeAlarm = None
    /\ ~showAlarmModal
    /\ mounted
    /\ cues = 1
    /\ pendingPlay = 0
    /\ vibrating
    /\ vibrationRef # None
    /\ The(vibrationRef) \in vibrationIntervals
    /\ \E s \in sounds : s.playing

\* C30: at most one loaded sound and at most one vibration interval are live,
\* and they are the ones soundRef and vibrationRef hold, so that a single
\* stopAlarm releases every cue; this also when one check calls triggerAlarm
\* for several medicines.
C30_CuesAreReferenced ==
    /\ Cardinality(sounds) <= 1
    /\ Cardinality(vibrationIntervals) <= 1
    /\ \A s \in sounds : soundRef = Some(s.id)
    /\ \A v \in vibrationIntervals : vibrationRef = Some(v)

\* one check found two medicines due and both audio starts went through: two
\* sounds play and two vibration intervals run, the refs hold the later pair
C30_TwoCuesFromOneCheck ==
    /\ activeAlarm # None
    /\ pendingPlay = 0
    /\ Cardinality(sounds) = 2
    /\ Cardinality(vibrationIntervals) = 2
    /\ Len(snoozeTimers) = 0
    /\ soundRef = Some(2)
    /\ vibrationRef = Some(2)

\* after that, one stopAlarm has run: Idle, and the earlier pair is still live
C30_LeftAfterStop ==
    /\ activeAlarm = None
    /\ ~showAlarmModal
    /\ mounted
    /\ soundRef = None
    /\ vibrationRef = None
    /\ \E s \in sounds : sounds = {s} /\ s.id = 1 /\ s.playing
    /\ vibrationIntervals = {1}
    /\ snoozeTimers = <<>>

\* C26: every change of the list (add, toggle, take, delete, or a load that
\* replaced it) is followed by the save effect, which hands the resulting list
\* as JSON text to AsyncStorage.setItem under the one key loadMedicines reads;
\* and once no effect is pending and every call in flight has completed in
\* order, the text stored under that key parses to the list in memory.
C26_SavesReachStorage ==
    [][/\ (medicines' # medicines) => effectPending'
       /\ (RecheckEffect /\ asyncStorage.mode = "queued")
            => asyncStorage'.pending =
                 Append(asyncStorage.pending,
                        [op |-> "set", key |-> loadMedicines.key,
                         value |-> JSONStringify(medicines)])
       /\ (~effectPending' /\ asyncStorage'.pending = <<>>)
            => /\ StorageKey \in DOMAIN asyncStorage'.items
               /\ JSONParse(asyncStorage'.items[StorageKey]) = medicines']_vars

\* a medicine was added, taken and deactivated, every save has completed and
\* the stored text holds that record
C26_Witness ==
    /\ ~effectPending
    /\ asyncStorage.mode = "queued"
    /\ asyncStorage.pending = <<>>
    /\ Len(medicines) = 1
    /\ medicines[1].lastTaken # None
    /\ ~medicines[1].isActive
    /\ StorageKey \in DOMAIN asyncStorage.items
    /\ JSONParse(asyncStorage.items[StorageKey]) = medicines

IdsOf(medicineList) == [i \in 1..Len(medicineList) |-> medicineList[i].id]

C25_TimeUntilNext ==
    \A i \in 1..Len(medicines) :
        LET med == medicines[i]
            r == getTimeUntilNext(med, now)
            nowMin == (now \div MsPerMinute) % 1440
            Of(time) == IF Len(time) = 5
                        THEN (DigitValue(time[1]) * 10 + DigitValue(time[2])) * 60
                               + DigitValue(time[4]) * 10 + DigitValue(time[5])
                        ELSE DigitValue(time[1]) * 60
                               + DigitValue(time[3]) * 10 + DigitValue(time[4])
            Until(time) == IF Of(time) > nowMin THEN Of(time) - nowMin
                           ELSE Of(time) + 1440 - nowMin
            h == IF r.kind = "minutes" THEN 0 ELSE r.hoursLeft
            total == h * 60 + r.minutesLeft
        IN  IF med.frequency = "weekly" /\ getDay(now) \notin The(med.weeklyDays)
            THEN r.kind = "notToday"
            ELSE /\ r.kind # "notToday"
                 /\ r.minutesLeft \in 0..59
                 /\ \E k \in 1..Len(med.times) : total = Until(med.times[k])
                 /\ \A k \in 1..Len(med.times) : total <= Until(med.times[k])
                 /\ total \in 1..1440
                 /\ (\A k \in 1..Len(med.times) : Of(med.times[k]) = nowMin)
                       => total = 1440

\* the card of a medicine whose only time is the current minute is rendered at
\* midnight of a listed day: 24 hours and 0 minutes
C25_Witness ==
    /\ Len(medicines) = 1
    /\ medicines[1].times = <<currentTime(now)>>
    /\ getHours(now) = 0
    /\ medicines[1].frequency = "weekly"
    /\ getTimeUntilNext(medicines[1], now) =
         [kind |-> "hoursAndMinutes", hoursLeft |-> 24, minutesLeft |-> 0]

StartsWith(text, prefix) ==
    Len(text) >= Len(prefix) /\ SubSeq(text, 1, Len(prefix)) = prefix

\* the notification identifier is derived from the medicine's id
DerivedFrom(notificationId, medicineId) ==
    StartsWith(notificationId, NumToString(medicineId) \o <<"_">>)

\* C21: after a medicine is switched off or deleted, the system holds no
\* scheduled notification whose identifier is derived from that medicine's
\* id, whatever the values of notificationsEnabled and
\* isNotificationConfigured at that moment.
C21_NothingLeftScheduled ==
    [][\A i \in 1..Len(medicines) :
          (\/ IdxToggleMedicine(i) /\ medicines[i].isActive
           \/ IdxDeleteMedicine(i))
          => \A n \in scheduled' : ~DerivedFrom(n.id, medicines[i].id)]_vars

\* a medicine scheduled in one run of the app was deleted in the next run
\* before the notifications were ready: its notification is still held
C21_LeftAfterDelete ==
    /\ medicines = <<>>
    /\ created = 1
    /\ ~NotificationsReady
    /\ scheduled # {}
    /\ \A n \in scheduled : DerivedFrom(n.id, 1)

\* the last step made one schedule request per entry of the medicine's
\* times, named id_0, id_1, ..., pairwise distinct, each among the identifiers
\* cancelNotifications tries for this medicine and for no other listed one,
\* and the system holds them
RequestsFor(medicine) ==
    /\ Len(pushCalls') = Len(medicine.times)
    /\ \A k \in 1..Len(pushCalls') :
          /\ pushCalls'[k].fn = "localNotificationSchedule"
          /\ pushCalls'[k].id = NumToString(medicine.id) \o <<"_">> \o NumToString(k - 1)
          /\ \E n \in scheduled' : n.id = pushCalls'[k].id
          /\ \E j \in 1..Len(cancelNotifications(medicine.id)) :
                cancelNotifications(medicine.id)[j].id = pushCalls'[k].id
          /\ \A o \in 1..Len(medicines') :
                medicines'[o].id # medicine.id
                => \A j \in 1..Len(cancelNotifications(medicines'[o].id)) :
                      cancelNotifications(medicines'[o].id)[j].id # pushCalls'[k].id
    /\ \A k, l \in 1..Len(pushCalls') : k # l => pushCalls'[k].id # pushCalls'[l].id

\* C22: when a medicine is created or switched on again while the
\* notifications are enabled and configured, exactly one schedule request is
\* made per entry of its times, with the identifier medicineId_i of the
\* entry's index i; the identifiers are pairwise distinct and are the ones a
\* later cancellation of that medicine tries.
C22_OneRequestPerTime ==
    [][/\ \A f \in IdxForms :
            (IdxAddMedicine(f) /\ Len(medicines') > Len(medicines) /\ NotificationsReady)
            => RequestsFor(medicines'[Len(medicines')])
       /\ \A i \in 1..Len(medicines) :
            (IdxToggleMedicine(i) /\ ~medicines[i].isActive /\ NotificationsReady)
            => RequestsFor(medicines[i])]_vars

\* the stored medicine with two times was just switched on with the
\* notifications ready: two requests, both held
C22_Witness ==
    /\ NotificationsReady
    /\ Len(pushCalls) = 2
    /\ pushCalls[1].fn = "localNotificationSchedule"
    /\ pushCalls[1].id # pushCalls[2].id
    /\ Cardinality(scheduled) >= 2
    /\ \E i \in 1..Len(medicines) : medicines[i].isActive /\ Len(medicines[i].times) = 2

\* C23: the date of every schedule request is the next occurrence of the
\* entry's HH:MM strictly after the scheduling instant: today when that
\* time of day is still ahead, else tomorrow, never in the past and never
\* more than 24 hours ahead; the repeat unit is 'day' for a daily medicine and
\* 'week' for a weekly one.
C23_FirstFireIsNextOccurrence ==
    [][\A k \in 1..Len(pushCalls') :
          pushCalls'[k].fn = "localNotificationSchedule"
          => \E i \in 1..Len(medicines') :
               \E j \in 1..Len(medicines'[i].times) :
                 LET time == medicines'[i].times[j]
                     ofDay == ((DigitValue(time[1]) * 10 + DigitValue(time[2])) * 60
                                + DigitValue(time[4]) * 10 + DigitValue(time[5])) * MsPerMinute
                     date == pushCalls'[k].date
                 IN  /\ pushCalls'[k].id = NotificationId(medicines'[i].id, j - 1)
                     /\ date > now
                     /\ date - now <= MsPerDay
                     /\ date % MsPerDay = ofDay
                     /\ (date \div MsPerDay = now \div MsPerDay) <=> (ofDay > now % MsPerDay)
                     /\ pushCalls'[k].repeatType =
                          (IF medicines'[i].frequency = "daily" THEN "day" ELSE "week")]_vars

\* a medicine was just scheduled at the very instant of its time: the request
\* is dated 24 hours later
C23_Witness ==
    /\ Len(pushCalls) >= 1
    /\ pushCalls[1].fn = "localNotificationSchedule"
    /\ pushCalls[1].date = now + MsPerDay
    /\ \E n \in scheduled : n.date = now + MsPerDay

\* C24: in a process where PushNotification is not available, no step makes
\* a schedule, cancel or immediate-notification call, the system's scheduled
\* notifications stay as they are, no error Alert is shown, and adding,
\* toggling, taking and deleting update the list as they do otherwise.
C24_UnavailableIsQuiet ==
    [][~pushAvailable
         => /\ pushCalls' = <<>>
            /\ scheduled' = scheduled
            /\ lastOutcome' \notin {"scheduleError", "testError"}
            /\ \A f \in IdxForms :
                 (IdxAddMedicine(f) /\ IdxValidateForm(f) /\ ~NameTaken(medicines, f))
                 => /\ Len(medicines') = Len(medicines) + 1
                    /\ medicines'[Len(medicines')].name = Trim(f.name)
                    /\ medicines'[Len(medicines')].times = <<f.time>>
                    /\ medicines'[Len(medicines')].isActive
            /\ \A i \in 1..Len(medicines) :
                 /\ IdxToggleMedicine(i)
                      => medicines'[i].isActive = ~medicines[i].isActive
                 /\ IdxMarkAsTaken(i) => medicines'[i].lastTaken = Some(now)
                 /\ IdxDeleteMedicine(i)
                      => /\ Len(medicines') = Len(medicines) - 1
                         /\ \A j \in 1..Len(medicines') :
                               medicines'[j].id # medicines[i].id]_vars

\* without the module: a medicine was added, taken and switched off, and
\* nothing is scheduled
C24_Witness ==
    /\ ~pushAvailable
    /\ registration = "off"
    /\ ~NotificationsReady
    /\ scheduled = {}
    /\ \E i \in 1..Len(medicines) :
          /\ medicines[i].name = <<"a", "b">>
          /\ medicines[i].lastTaken # None
          /\ ~medicines[i].isActive

\* C38: once the setup has reported a failure (registration error, or the
\* permission refused) and the user has not pressed retry since, no step
\* makes notificationsEnabled and isNotificationConfigured both true; in
\* particular the fallback timer armed by the setup does not.
C38_FailedStaysFailed ==
    [][(/\ registration \in {"failed", "off"}
        /\ initializationRef.initializationAttempted)
         => ~(notificationsEnabled' /\ isNotificationConfigured')]_vars

\* the registration failed, nobody retried, and the fallback timer has made
\* the notifications ready all the same
C38_ReadyAfterError ==
    /\ registration = "failed"
    /\ initializationRef.initializationAttempted
    /\ ~initializationRef.isConfigured
    /\ initTimers.fallback = 0
    /\ notificationsEnabled
    /\ isNotificationConfigured

\* C37: whenever notificationsEnabled and isNotificationConfigured are both
\* true, the system holds a scheduled notification for every time of every
\* active medicine of the list, also for a medicine that was added, switched
\* on or loaded before the notifications became ready.
C37_ActiveAreScheduled ==
    NotificationsReady
    => \A i \in 1..Len(medicines) :
          medicines[i].isActive
          => \A k \in 1..Len(medicines[i].times) :
                \E n \in scheduled : n.id = NotificationId(medicines[i].id, k - 1)

\* a medicine was added while the registration was under way; the
\* notifications are ready now and nothing is scheduled for it
C37_AddedBeforeReady ==
    /\ registration = "registered"
    /\ NotificationsReady
    /\ pushAvailable
    /\ Len(medicines) = 1
    /\ medicines[1].isActive
    /\ scheduled = {}

\* C34: no two records of the list have names that are equal after trimming
\* and case-folding, whatever sequence of addMedicine calls built the list.
C34_NamesDistinct ==
    \A i, j \in 1..Len(medicines) :
        i # j => ToLowerCase(Trim(medicines[i].name))
                 # ToLowerCase(Trim(medicines[j].name))

\* the forms "cd" and "cd " were both accepted and both records are stored
\* under the name "cd"
C34_SameNameTwice ==
    /\ Len(medicines) = 2
    /\ medicines[1].name = <<"c", "d">>
    /\ medicines[2].name = <<"c", "d">>
    /\ lastOutcome = "added"

\* C35: a record that is low on stock (stock and stockAlert defined,
\* stock <= stockAlert) is still low on stock after any step that keeps it in
\* the list, in particular after a take-action: its stock stays a number.
C35_LowStockStays ==
    [][\A i \in 1..Len(medicines) : \A j \in 1..Len(medicines') :
          (medicines'[j].id = medicines[i].id /\ LowStock(medicines[i]))
          => LowStock(medicines'[j])]_vars

\* a record created with stock 1 and stockAlert 1 after its second
\* take-action: the stock is undefined and the record is no longer low
C35_ExhaustedIsSilent ==
    \E i \in 1..Len(medicines) :
        /\ medicines[i].stockAlert = Some(1)
        /\ medicines[i].stock = None
        /\ medicines[i].lastTaken # None
        /\ ~LowStock(medicines[i])

AlarmHasRecord ==
    activeAlarm # None
    => \E i \in 1..Len(medicines) :
          /\ medicines[i].id = The(activeAlarm).medicineId
          /\ medicines[i].isActive

C31_CueStopsOnlyInTime ==
    [][\A s \in sounds :
          (s.playing /\ s \notin sounds' /\ mounted')
          => \/ showAlarmModal /\ ~showAlarmModal'
             \/ now = s.at + SoundAutoStopMs]_vars

\* the auto-stop timer of an earlier alarm has just fired while a later alarm
\* rings: that alarm is still on the screen and its cue is gone
C31_CutShort ==
    /\ activeAlarm # None
    /\ showAlarmModal
    /\ mounted
    /\ pendingPlay = 0
    /\ cues = 2
    /\ soundRef = None
    /\ sounds = {}
    /\ soundStopTimers = {now + SoundAutoStopMs - TimeStep}

\* the last instant of a minute, when every timer due at it has run
EndOfMinute ==
    /\ now % MsPerMinute = MsPerMinute - TimeStep
    /\ mounted
    /\ ~effectPending
    /\ pendingPlay = 0
    /\ ~TimerDue

RangIn(id, minute) == <<id, minute>> \in rungOnce

\* the record satisfies the due condition from the first instant of the
\* current minute to now: the time since lastTaken only grows
DueAllMinute(med) ==
    /\ IsDue(med, now - (now % MsPerMinute))
    /\ IsDue(med, now)

\* C33: a medicine that is due throughout minute M (active, on an active
\* day, a time equal to M, not taken within the last minute) has rung in M by
\* the end of M, whatever the phase of the recheck interval and however often
\* the list changes restarted it, unless another alarm took the minute:
\* another medicine rang in M, or an alarm that started before M is still
\* active.
C33_DueMinuteRings ==
    EndOfMinute
    => \A i \in 1..Len(medicines) :
          DueAllMinute(medicines[i])
          => \/ RangIn(medicines[i].id, now \div MsPerMinute)
             \/ \E j \in 1..Len(medicines) :
                    j # i /\ RangIn(medicines[j].id, now \div MsPerMinute)
             \/ activeAlarm # None

\* the end of the minute of a medicine that was switched off and on again:
\* the restart of the recheck interval found it due and its alarm, the only
\* one of the minute, is ringing
C33_Witness ==
    /\ EndOfMinute
    /\ userOps = 3
    /\ Len(medicines) = 1
    /\ DueAllMinute(medicines[1])
    /\ rungOnce = {<<medicines[1].id, now \div MsPerMinute>>}
    /\ activeAlarm # None
    /\ The(activeAlarm).medicineId = medicines[1].id

\* neither call of the two mount effects is still in flight
StartupCallsDone ==
    /\ ~effectPending
    /\ \A k \in 1..Len(asyncStorage.pending) :
          asyncStorage.pending[k] \notin {loadMedicines, saveMedicines(<<>>)}

\* C32: when the load and the save of the empty list started at mount have
\* both completed, in whatever way, and the user has done nothing yet, the
\* list that was stored before the start is the stored list or the list in
\* memory.
C32_StoredListSurvives ==
    (userOps = 0 /\ StartupCallsDone)
    => \/ medicines = StoredBefore
       \/ asyncStorage.items[StorageKey] = JSONStringify(StoredBefore)

\* the load was rejected and the save of the empty list went through: the
\* stored list is empty, the list in memory is empty, nothing is in flight
C32_LostAtStartup ==
    /\ userOps = 0
    /\ ~effectPending
    /\ asyncStorage.pending = <<>>
    /\ medicines = <<>>
    /\ asyncStorage.items[StorageKey] = JSONStringify(<<>>)

\* the load returned the stored list and every call has completed: the list
\* is in memory and in storage
C32_LoadedAtStartup ==
    /\ userOps = 0
    /\ ~effectPending
    /\ asyncStorage.pending = <<>>
    /\ medicines = StoredBefore
    /\ asyncStorage.items[StorageKey] = JSONStringify(StoredBefore)

====
